---------------------------- MODULE Spec2Model ----------------------------
(***************************************************************************)
(* State-machine model of the data layer of src/app.js: the lazy column   *)
(* loader (ensureColumnLoaded / ensureColumnsLoaded), the sparse gene     *)
(* expression resolver (getGeneExpression) with its single-slot cache,    *)
(* the filter pipeline (updateFilter) and the sampling step of            *)
(* createPointCloud.                                                      *)
(*                                                                         *)
(* JavaScript is single-threaded: the code between two awaits runs        *)
(* atomically, so every action below is one such run-to-the-next-await.   *)
(***************************************************************************)
EXTENDS Integers, Sequences, FiniteSets, TLC

VARIABLES
    allData,              \* app.js:47   row table: row index -> record
    loadedColumns,        \* app.js:750  set of column names already loaded
    continuousRanges,     \* app.js:51   column -> {min, max}
    attributeValues,      \* app.js:50   column -> set of distinct non-empty strings
    activeFilters,        \* app.js:53   list of filter objects
    visibleIndices,       \* app.js:48   list of visible row indices
    colorBy,              \* value of the colorBy dropdown (an obs column)
    filterUpdateTimeout,  \* app.js:2781 TRUE while the debounce timer is pending
    obsStore,             \* contents of the obs columns in the remote store
    calls,                \* suspended activations: a column fetch or a 10 ms delay
    fetches,              \* column -> number of store fetches issued for it
    loadLog,              \* columns whose load has finished / whose fetch failed
    selectedGene,         \* app.js:1705 gene chosen in the gene box ("" = null)
    geneExpressionCache,  \* app.js:1931 single-slot cache {geneName, data}
    cachedZarrArrays,     \* app.js:744  indptr + handles, null until first use
    geneRuns,             \* activations of createPointCloud colouring by a gene
    xMatrix,              \* contents of X/indptr, X/indices, X/data in the store
    sampleRate,           \* app.js:2316 value of the sampleRate slider (percent)
    maxPoints,            \* app.js:27   MAX_POINTS, the cap on rendered points
    indicesToRender,      \* app.js:2373 result of the sampling step
    storeAttrs,           \* what the store's .zattrs answer: the encoding-type
                          \* of each obs column, the layout of each embedding
    columnMetadata,       \* app.js:747  column -> {type, encodingType}
    availableCoordinateSources,  \* app.js:30 the obsm catalog, in order
    selectedXCoord,       \* app.js:36   coordinate source of the x axis
    selectedYCoord,       \* app.js:37   coordinate source of the y axis
    now,                  \* the clock, in milliseconds
    timers,               \* pending setTimeout timers of throttleFilterUpdate
    throttleCalls,        \* the times at which throttleFilterUpdate was called
    updateStarts,         \* the updateFilter runs the timers have started
    coordStore,           \* how the store answers the requests for a coordinate
    coordCall,            \* the activation of loadCoordinateValues
    embStore,             \* how the store describes an array embedding
    dimRun,               \* the activation of the array branch of discovery
    batchToLoad,          \* app.js:879 toLoad of the running ensureColumnsLoaded
    selectedZCoord,       \* app.js:38   coordinate source of the z axis, or null
    positions,            \* the x, y and z fields of the rows of allData
    coordRuns,            \* activations of handleCoordinateChange
    scene,                \* the meshes scene.add has put into the scene
    pointCloud,           \* app.js:2458 the mesh kept for cleanup, or null
    renderedIndicesMap,   \* app.js:55   row index of each rendered instance
    renderRuns,           \* activations of createPointCloud
    lastOp                \* the operation that produced this state; in Spec
                          \* the phase of loadData (app.js:1667-1690)

vars == <<allData, loadedColumns, continuousRanges, attributeValues,
          activeFilters, visibleIndices, colorBy, filterUpdateTimeout,
          obsStore, calls, fetches, loadLog, selectedGene,
          geneExpressionCache, cachedZarrArrays, geneRuns, xMatrix,
          sampleRate, maxPoints, indicesToRender, storeAttrs, columnMetadata,
          availableCoordinateSources, selectedXCoord, selectedYCoord,
          now, timers, throttleCalls, updateStarts, coordStore, coordCall,
          embStore, dimRun, batchToLoad, selectedZCoord, positions,
          coordRuns, scene, pointCloud, renderedIndicesMap, renderRuns,
          lastOp>>

loaderVars == <<loadedColumns, continuousRanges, attributeValues, colorBy,
                filterUpdateTimeout, obsStore, calls, fetches, loadLog>>
geneVars   == <<selectedGene, geneExpressionCache, cachedZarrArrays, geneRuns,
                xMatrix>>
sampleVars == <<sampleRate, maxPoints, indicesToRender>>
discoveryVars == <<storeAttrs, columnMetadata, availableCoordinateSources,
                   selectedXCoord, selectedYCoord>>
throttleVars == <<now, timers, throttleCalls, updateStarts>>
coordVars  == <<coordStore, coordCall>>
dimVars    == <<embStore, dimRun>>
changeVars == <<selectedZCoord, positions, coordRuns>>
renderVars == <<scene, pointCloud, renderedIndicesMap, renderRuns>>
restVars   == <<throttleVars, coordVars, dimVars, batchToLoad, changeVars,
               renderVars>>

-----------------------------------------------------------------------------
(* JavaScript values.  A value is a tagged record so that numbers, strings, *)
(* NaN and undefined can sit in the same row and be compared.               *)

Num(x)    == [t |-> "num",   n |-> x, s |-> ""]
Str(x)    == [t |-> "str",   n |-> 0, s |-> x]
NaNVal    == [t |-> "nan",   n |-> 0, s |-> ""]
Undefined == [t |-> "undef", n |-> 0, s |-> ""]

\* Infinity, as written at app.js:833 (larger than every value of the model).
Inf == 1000

\* JavaScript truthiness, as used by `x || ''`.
Truthy(v) ==
    CASE v.t = "num" -> v.n # 0
      [] v.t = "str" -> v.s # ""
      [] OTHER       -> FALSE

\* a || b
JsOr(a, b) == IF Truthy(a) THEN a ELSE b

\* ToNumber of a value, for the relational operators.  The strings of the
\* model are "" (which converts to 0) and letters (which convert to NaN).
ToNumber(v) ==
    CASE v.t = "num" -> v
      [] v.t = "str" -> IF v.s = "" THEN Num(0) ELSE NaNVal
      [] OTHER       -> NaNVal

\* a >= b and a <= b on values: false as soon as one side is NaN.
JsGe(a, b) ==
    LET x == ToNumber(a)
        y == ToNumber(b)
    IN  x.t = "num" /\ y.t = "num" /\ x.n >= y.n

JsLe(a, b) ==
    LET x == ToNumber(a)
        y == ToNumber(b)
    IN  x.t = "num" /\ y.t = "num" /\ x.n <= y.n

SeqToSet(s) == {s[k] : k \in 1..Len(s)}

-----------------------------------------------------------------------------
(* Column metadata, as loadData builds it (app.js:1412-1453).               *)

\* obs columns of the store: "age" has encoding-type "array", "cluster" has
\* encoding-type "categorical", "label" has encoding-type "string-array".
ColumnOrder == {"age", "cluster", "label"}

\* columnMetadata[col].encodingType
EncodingType(col) ==
    CASE col = "age"     -> "array"
      [] col = "cluster" -> "categorical"
      [] OTHER           -> "string-array"

\* columnMetadata[col].type: continuous iff encoding-type is "array"
\* (none of the model's columns is in the numericColumns override list).
ColumnType(col) ==
    IF EncodingType(col) = "array" THEN "continuous" ELSE "categorical"

column_names_continuous  == {c \in ColumnOrder : ColumnType(c) = "continuous"}
column_names_categorical == {c \in ColumnOrder : ColumnType(c) = "categorical"}

\* A row record read at a key: an absent key reads as undefined.
EmptyRow == [c \in ColumnOrder |-> Undefined]

\* [n-1, ..., 1, 0] (a variant of AllIndices).
AllIndicesDescending(data) ==
    LET n == Cardinality(DOMAIN data)
    IN  [k \in 1..n |-> n - k]

\* [0, 1, ..., n-1] as built at app.js:2807-2810 and app.js:1633-1636.
AllIndices(data) ==
    LET n == Cardinality(DOMAIN data)
    IN  [k \in 1..n |-> k - 1]

-----------------------------------------------------------------------------
(* Filter objects (app.js:3461-3467): {id, attribute, type, values, range}. *)
(* values is a Set or null, range is {min, max} or null.                    *)

NullValues == [null |-> TRUE, set |-> {}]
NullRange  == [null |-> TRUE, min |-> 0, max |-> 0]
ValuesOf(S)     == [null |-> FALSE, set |-> S]
RangeOf(lo, hi) == [null |-> FALSE, min |-> lo, max |-> hi]

\* The filter pushed by the Add Filter button.
NewFilter(id) ==
    [id |-> id, attribute |-> "", type |-> "null",
     values |-> NullValues, range |-> NullRange]

\* A range test that excludes both bounds (a variant of ContinuousPass).
ContinuousPassStrict(point, filter) ==
    LET value == point[filter.attribute]
    IN  /\ value.t # "undef"
        /\ JsGe(value, Num(filter.range.min + 1))
        /\ JsLe(value, Num(filter.range.max - 1))

\* app.js:2834-2836: the test of a continuous filter on one row,
\* value !== null && value !== undefined && value >= min && value <= max.
ContinuousPass(point, filter) ==
    LET value == point[filter.attribute]
    IN  /\ value.t # "undef"
        /\ JsGe(value, Num(filter.range.min))
        /\ JsLe(value, Num(filter.range.max))

\* A membership test that always keeps the empty string (a variant of
\* CategoricalPass).
CategoricalPassKeepEmpty(point, filter) ==
    LET value == JsOr(point[filter.attribute], Str(""))
    IN  value.t = "str" /\ (value.s = "" \/ value.s \in filter.values.set)

\* A membership test that never keeps the empty string (a variant of
\* CategoricalPass).
CategoricalPassTruthy(point, filter) ==
    LET value == JsOr(point[filter.attribute], Str(""))
    IN  value.t = "str" /\ value.s # "" /\ value.s \in filter.values.set

\* app.js:2845: the test of a categorical filter on one row,
\* filter.values.has(point[attr] || ''); Set.has compares without
\* conversion, and the set holds strings.
CategoricalPass(point, filter) ==
    LET value == JsOr(point[filter.attribute], Str(""))
    IN  value.t = "str" /\ value.s \in filter.values.set

\* app.js:2820: a filter with no attribute or no type is skipped.
Unconfigured(filter) == filter.attribute = "" \/ filter.type = "null"

\* app.js:2828 and app.js:2841: which branch of the scan a filter takes.
IsContinuousFilter(filter) ==
    filter.type = "continuous" /\ ~ filter.range.null

IsCategoricalFilter(filter) ==
    /\ filter.type = "categorical"
    /\ ~ filter.values.null
    /\ filter.values.set # {}

\* A scan step in which a filter with no attribute or no type matches no
\* row (a variant of FilterCandidates).
FilterCandidatesStrict(data, candidateIndices, filter) ==
    IF Unconfigured(filter) THEN << >>
    ELSE IF IsContinuousFilter(filter)
         THEN SelectSeq(candidateIndices,
                        LAMBDA idx : ContinuousPass(data[idx], filter))
    ELSE IF IsCategoricalFilter(filter)
         THEN SelectSeq(candidateIndices,
                        LAMBDA idx : CategoricalPass(data[idx], filter))
    ELSE candidateIndices

\* app.js:2825-2856: one filter applied to the candidate list.
FilterCandidates(data, candidateIndices, filter) ==
    IF Unconfigured(filter) THEN candidateIndices
    ELSE IF IsContinuousFilter(filter)
         THEN SelectSeq(candidateIndices,
                        LAMBDA idx : ContinuousPass(data[idx], filter))
    ELSE IF IsCategoricalFilter(filter)
         THEN SelectSeq(candidateIndices,
                        LAMBDA idx : CategoricalPass(data[idx], filter))
    ELSE candidateIndices

\* A scan that stops at the first skipped filter instead of going on (a
\* variant of ApplyFilters).
RECURSIVE ApplyFiltersBreak(_, _, _)
ApplyFiltersBreak(data, filters, candidateIndices) ==
    IF filters = << >> THEN candidateIndices
    ELSE IF Unconfigured(Head(filters))
            \/ ~ (IsContinuousFilter(Head(filters))
                  \/ IsCategoricalFilter(Head(filters)))
         THEN candidateIndices
    ELSE ApplyFiltersBreak(data, Tail(filters),
                           FilterCandidates(data, candidateIndices, Head(filters)))

\* app.js:2819-2857: the filters applied one after the other (AND).
RECURSIVE ApplyFilters(_, _, _)
ApplyFilters(data, filters, candidateIndices) ==
    IF filters = << >> THEN candidateIndices
    ELSE ApplyFilters(data, Tail(filters),
                      FilterCandidates(data, candidateIndices, Head(filters)))

\* app.js:2795-2860: the visible index list updateFilter computes once the
\* filter columns are loaded.
ScanRows(data, filters) ==
    IF Len(filters) = 0 THEN AllIndices(data)
    ELSE ApplyFilters(data, filters, AllIndices(data))


-----------------------------------------------------------------------------
(* Values the variables of the other components hold while a specification *)
(* does not use them.                                                      *)

\* continuousRanges and attributeValues as loadData leaves them
\* (app.js:1442 and app.js:1448).
InitialRanges == [c \in column_names_continuous |-> [min |-> Inf, max |-> 0 - Inf]]
InitialAttributeValues == [c \in column_names_categorical |-> {}]

LoaderUnused ==
    /\ loadedColumns = {}
    /\ continuousRanges = InitialRanges
    /\ attributeValues = InitialAttributeValues
    /\ colorBy = "age"
    /\ filterUpdateTimeout = FALSE
    /\ obsStore = << >>
    /\ calls = << >>
    /\ fetches = [c \in ColumnOrder |-> 0]
    /\ loadLog = [finished |-> {}, failed |-> {}]

\* geneExpressionCache as declared at app.js:1931.
EmptyGeneCache == [geneName |-> "", data |-> << >>]

\* cachedZarrArrays = null (app.js:744).
NullArrays == [null |-> TRUE, indptr |-> << >>]

\* app.js:27
MAX_POINTS == 1000000

GeneUnused ==
    /\ selectedGene = ""
    /\ geneExpressionCache = EmptyGeneCache
    /\ cachedZarrArrays = NullArrays
    /\ geneRuns = << >>
    /\ xMatrix = [indptr |-> <<0>>, indices |-> << >>, data |-> << >>]

SampleUnused ==
    /\ sampleRate = 100
    /\ maxPoints = MAX_POINTS
    /\ indicesToRender = << >>

\* selectedXCoord = null (app.js:36).
NullCoord ==
    [null |-> TRUE, embedding |-> "", columnIndex |-> 0, columnName |-> ""]

\* Discovery has run: the metadata is the one of the model's columns; the
\* catalog and the axes play no part.
DiscoveryUnused ==
    /\ storeAttrs = << >>
    /\ columnMetadata = [c \in ColumnOrder |->
                            [type |-> ColumnType(c), encodingType |-> EncodingType(c)]]
    /\ availableCoordinateSources = << >>
    /\ selectedXCoord = NullCoord
    /\ selectedYCoord = NullCoord

\* No throttleFilterUpdate call has been made and no timer is pending.
ThrottleUnused ==
    /\ now = 0
    /\ timers = {}
    /\ throttleCalls = << >>
    /\ updateStarts = << >>

\* No coordinate is being loaded.
CoordUnused ==
    /\ coordStore = << >>
    /\ coordCall = << >>

\* No array embedding is being examined.
DimUnused ==
    /\ embStore = << >>
    /\ dimRun = << >>

\* No ensureColumnsLoaded batch is recorded.
BatchUnused == batchToLoad = << >>

\* No coordinate selection change is recorded.
ChangeUnused ==
    /\ selectedZCoord = << >>
    /\ positions = << >>
    /\ coordRuns = << >>

\* pointCloud = null (before the first render).
NullMesh == [id |-> 0 - 1, indices |-> << >>]

\* No rendering is recorded.
RenderUnused ==
    /\ scene = {}
    /\ pointCloud = NullMesh
    /\ renderedIndicesMap = << >>
    /\ renderRuns = << >>

RestUnused ==
    /\ ThrottleUnused
    /\ CoordUnused
    /\ DimUnused
    /\ BatchUnused
    /\ ChangeUnused
    /\ RenderUnused

-----------------------------------------------------------------------------
(* SpecFilter: the row scan of updateFilter as a function of the row table *)
(* and the filter list, every filter column being loaded.                  *)

\* Number of rows of the tables the scan is checked on.
FilterRows == 2

\* Longest filter list the scan is checked on.
MaxFilters == 2

\* Rows of the tables.  "age" holds what a loaded numeric column can hold
\* (numbers and NaN, app.js:839-840) or is missing; "cluster" holds what a
\* loaded categorical column holds: strings, "" included (app.js:855-856).
RowChoices ==
    {[EmptyRow EXCEPT !["age"] = r[1], !["cluster"] = r[2]] :
        r \in {<<Num(1), Str("A")>>, <<Num(2), Str("A")>>, <<Num(3), Str("B")>>,
               <<NaNVal, Str("A")>>, <<Undefined, Str("B")>>, <<Num(2), Str("")>>,
               <<Num(3), Str("")>>, <<Num(1), Str("B")>>}}

FilterTables == [0..(FilterRows - 1) -> RowChoices]

\* A filter as the attribute handler configures it (app.js:2636-2645),
\* after any slider or checkbox edits.
ContinuousFilter(attribute, lo, hi) ==
    [id |-> 0, attribute |-> attribute, type |-> "continuous",
     values |-> NullValues, range |-> RangeOf(lo, hi)]

CategoricalFilter(attribute, S) ==
    [id |-> 0, attribute |-> attribute, type |-> "categorical",
     values |-> ValuesOf(S), range |-> NullRange]

FilterChoices ==
    {NewFilter(0), [NewFilter(0) EXCEPT !.attribute = "age"]}
    \cup {ContinuousFilter("age", r[1], r[2]) : r \in {<<2, 3>>, <<1, 2>>}}
    \cup {CategoricalFilter("cluster", S) : S \in {{}, {"A"}, {"A", "B"}, {"B", ""}}}

\* Lists of 0..MaxFilters filters; the filter at position k has id k.
FilterLists ==
    UNION {{[k \in 1..n |-> [f[k] EXCEPT !.id = k]] : f \in [1..n -> FilterChoices]} :
            n \in 0..MaxFilters}

InitFilter ==
    /\ allData \in FilterTables
    /\ activeFilters \in FilterLists
    /\ visibleIndices = AllIndices(allData)
    /\ LoaderUnused
    /\ GeneUnused
    /\ SampleUnused
    /\ DiscoveryUnused
    /\ RestUnused
    /\ lastOp = "init"

\* app.js:2792-2866 with every filter column loaded: the scan, then the
\* assignment of visibleIndices.
UpdateFilterScan ==
    /\ lastOp = "init"
    /\ visibleIndices' = ScanRows(allData, activeFilters)
    /\ lastOp' = "updateFilter"
    /\ UNCHANGED <<restVars, discoveryVars, allData, activeFilters, loaderVars, geneVars, sampleVars>>

NextFilter == UpdateFilterScan

SpecFilter == InitFilter /\ [][NextFilter]_vars


\* The filter list reordered by the permutation p of its positions.
Permuted(filters, p) == [k \in 1..Len(filters) |-> filters[p[k]]]

\* TRUE when the list of row indices is strictly increasing.
StrictlyIncreasing(s) == \A k \in 1..(Len(s) - 1) : s[k] < s[k + 1]

\* The only filter of a one-filter list.
OnlyFilter == activeFilters[1]

\* C2: updateFilter is order-independent: every permutation of
\* activeFilters yields the same set of visible row indices as the list
\* in its own order.
C2_OrderIndependent ==
    lastOp = "updateFilter" =>
        \A p \in Permutations(1..Len(activeFilters)) :
            SeqToSet(ScanRows(allData, Permuted(activeFilters, p)))
                = SeqToSet(visibleIndices)

\* C2 witness: two configured filters of different kinds, each of which
\* alone rejects a row the other keeps, have been applied.
C2_Witness ==
    /\ lastOp = "updateFilter"
    /\ Len(activeFilters) = 2
    /\ IsContinuousFilter(activeFilters[1])
    /\ IsCategoricalFilter(activeFilters[2])
    /\ \E i, j \in DOMAIN allData :
          /\ ContinuousPass(allData[i], activeFilters[1])
          /\ ~ CategoricalPass(allData[i], activeFilters[2])
          /\ ~ ContinuousPass(allData[j], activeFilters[1])
          /\ CategoricalPass(allData[j], activeFilters[2])
    /\ visibleIndices = << >>

\* C7: a continuous filter with range [min, max] retains exactly the rows
\* whose value is a number v with min <= v <= max, in increasing row order;
\* rows whose value is missing or NaN are excluded.
C7_ContinuousInclusive ==
    (/\ lastOp = "updateFilter"
     /\ Len(activeFilters) = 1
     /\ OnlyFilter.attribute # ""
     /\ OnlyFilter.type = "continuous"
     /\ ~ OnlyFilter.range.null)
    => /\ SeqToSet(visibleIndices) =
            {i \in DOMAIN allData :
                /\ allData[i][OnlyFilter.attribute].t = "num"
                /\ OnlyFilter.range.min <= allData[i][OnlyFilter.attribute].n
                /\ allData[i][OnlyFilter.attribute].n <= OnlyFilter.range.max}
       /\ StrictlyIncreasing(visibleIndices)

\* C7 witness: range [2,3] applied to a table with a row at the lower bound,
\* which is retained, and a row holding NaN, which is not.
C7_Witness ==
    /\ lastOp = "updateFilter"
    /\ Len(activeFilters) = 1
    /\ OnlyFilter.type = "continuous"
    /\ OnlyFilter.range = RangeOf(2, 3)
    /\ allData[0]["age"] = Num(2)
    /\ allData[1]["age"] = NaNVal
    /\ visibleIndices = <<0>>

\* C8: a categorical filter with a non-empty selected set retains exactly
\* the rows whose string value for the attribute is a member of the set.
C8_CategoricalMembership ==
    (/\ lastOp = "updateFilter"
     /\ Len(activeFilters) = 1
     /\ OnlyFilter.attribute # ""
     /\ OnlyFilter.type = "categorical"
     /\ ~ OnlyFilter.values.null
     /\ OnlyFilter.values.set # {})
    => /\ SeqToSet(visibleIndices) =
            {i \in DOMAIN allData :
                /\ allData[i][OnlyFilter.attribute].t = "str"
                /\ allData[i][OnlyFilter.attribute].s \in OnlyFilter.values.set}
       /\ StrictlyIncreasing(visibleIndices)

\* C8 witness: {A, B} applied to a table whose row 0 holds A and whose
\* row 1 holds the empty string leaves row 0 only.
C8_Witness ==
    /\ lastOp = "updateFilter"
    /\ Len(activeFilters) = 1
    /\ OnlyFilter.type = "categorical"
    /\ OnlyFilter.values.set = {"A", "B"}
    /\ allData[0]["cluster"] = Str("A")
    /\ allData[1]["cluster"] = Str("")
    /\ visibleIndices = <<0>>

C24_InertPredicates ==
    lastOp = "updateFilter" =>
        /\ (activeFilters = << >> => visibleIndices = AllIndices(allData))
        /\ visibleIndices =
              ScanRows(allData,
                       SelectSeq(activeFilters, LAMBDA f : ~ Unconfigured(f)))

\* C24 witness: a filter with an attribute and no type comes before a
\* range filter that drops row 1; row 0 alone is visible.
C24_Witness ==
    /\ lastOp = "updateFilter"
    /\ Len(activeFilters) = 2
    /\ activeFilters[1].attribute = "age" /\ activeFilters[1].type = "null"
    /\ IsContinuousFilter(activeFilters[2])
    /\ visibleIndices = <<0>>

\* C25: a categorical filter whose selected set is empty retains no row.
C25_EmptySelectionHidesAll ==
    (/\ lastOp = "updateFilter"
     /\ Len(activeFilters) = 1
     /\ OnlyFilter.attribute # ""
     /\ OnlyFilter.type = "categorical"
     /\ ~ OnlyFilter.values.null
     /\ OnlyFilter.values.set = {})
    => visibleIndices = << >>


-----------------------------------------------------------------------------
(* SpecSample: the sampling step of createPointCloud (app.js:2371-2399).   *)

Min(a, b) == IF a < b THEN a ELSE b
Max(a, b) == IF a > b THEN a ELSE b

\* app.js:2316: the slider value (a whole number of percent) clamped to
\* [0.01, 1]; the model keeps the rate in percent.
SampleRatePercent(slider) == Max(1, Min(100, slider))

\* app.js:2378: Math.min(Math.floor(visibleCount * sampleRate), MAX_POINTS).
TargetCount(visibleCount, slider, cap) ==
    Min((visibleCount * SampleRatePercent(slider)) \div 100, cap)

\* A shuffle step that copies element j over element i and forgets to put
\* element i back.
SwapOverwrite(arr, i, j) == [arr EXCEPT ![i + 1] = arr[j + 1]]

\* app.js:2394: swap of the elements at (0-based) positions i and j.
Swap(arr, i, j) == [arr EXCEPT ![i + 1] = arr[j + 1], ![j + 1] = arr[i + 1]]

\* app.js:2390-2395: every array the loop can leave when it resumes at
\* counter i; j = i + floor(random * (length - i)) is any of i..length-1.
RECURSIVE PartialShuffle(_, _, _)
PartialShuffle(arr, i, targetCount) ==
    IF i < targetCount /\ i < Len(arr)
    THEN UNION {PartialShuffle(Swap(arr, i, j), i + 1, targetCount) :
                    j \in i..(Len(arr) - 1)}
    ELSE {arr}

\* A sampling step that takes the all-visible branch only when the target
\* exceeds the visible count, and so shuffles at 100% (a variant of
\* SampleIndices).
SampleIndicesAlwaysShuffle(visible, slider, cap) ==
    LET visibleCount == Len(visible)
        targetCount  == TargetCount(visibleCount, slider, cap)
    IN  IF targetCount > visibleCount
        THEN {visible}
        ELSE {SubSeq(a, 1, targetCount) : a \in PartialShuffle(visible, 0, targetCount)}

\* app.js:2380-2399: every list the sampling step can return.
SampleIndices(visible, slider, cap) ==
    LET visibleCount == Len(visible)
        targetCount  == TargetCount(visibleCount, slider, cap)
    IN  IF targetCount >= visibleCount
        THEN {visible}
        ELSE {SubSeq(a, 1, targetCount) : a \in PartialShuffle(visible, 0, targetCount)}

\* Number of rows the visible lists of the sampler are drawn from.
SampleRows == 4

\* A cap small enough to bind on the lists of the model, next to MAX_POINTS.
SmallCap == 2

\* Strictly increasing lists of row indices, as updateFilter leaves them.
RECURSIVE Ascending(_)
Ascending(S) ==
    IF S = {} THEN << >>
    ELSE LET m == CHOOSE x \in S : \A y \in S : x <= y
         IN  <<m>> \o Ascending(S \ {m})

VisibleLists == {Ascending(S) : S \in SUBSET (0..(SampleRows - 1))}

\* Values of the sampleRate slider.
SliderValues == {0, 1, 25, 50, 75, 100}

InitSample ==
    /\ allData = [i \in 0..(SampleRows - 1) |-> EmptyRow]
    /\ activeFilters = << >>
    /\ visibleIndices \in VisibleLists
    /\ sampleRate \in SliderValues
    /\ maxPoints \in {MAX_POINTS, SmallCap}
    /\ indicesToRender = << >>
    /\ LoaderUnused
    /\ GeneUnused
    /\ DiscoveryUnused
    /\ RestUnused
    /\ lastOp = "init"

\* app.js:2309-2312: createPointCloud with nothing visible renders nothing.
CreatePointCloudEmpty ==
    /\ lastOp = "init"
    /\ visibleIndices = << >>
    /\ lastOp' = "empty"
    /\ UNCHANGED <<restVars, discoveryVars, allData, activeFilters, visibleIndices, loaderVars,
                   geneVars, sampleVars>>

\* app.js:2371-2399 and app.js:2461: the sampling step.
CreatePointCloudSample ==
    /\ lastOp = "init"
    /\ visibleIndices # << >>
    /\ indicesToRender' \in SampleIndices(visibleIndices, sampleRate, maxPoints)
    /\ lastOp' = "sampled"
    /\ UNCHANGED <<restVars, discoveryVars, allData, activeFilters, visibleIndices, loaderVars,
                   geneVars, sampleRate, maxPoints>>

NextSample == CreatePointCloudEmpty \/ CreatePointCloudSample

SpecSample == InitSample /\ [][NextSample]_vars

\* C10: the sampling step returns exactly min(floor(length * fraction), cap)
\* indices, each drawn from the visible list, none twice, whatever the
\* random choices.
C10_SampleSizeSubsetDistinct ==
    lastOp = "sampled" =>
        /\ Len(indicesToRender) =
               Min((Len(visibleIndices) * SampleRatePercent(sampleRate)) \div 100,
                   maxPoints)
        /\ SeqToSet(indicesToRender) \subseteq SeqToSet(visibleIndices)
        /\ \A a, b \in 1..Len(indicesToRender) :
               a # b => indicesToRender[a] # indicesToRender[b]

\* C10 witness: the cap binds (4 visible rows at 75% would give 3) and the
\* shuffle has moved the last visible row to the front.
C10_Witness ==
    /\ lastOp = "sampled"
    /\ visibleIndices = <<0, 1, 2, 3>>
    /\ sampleRate = 75
    /\ maxPoints = SmallCap
    /\ indicesToRender = <<3, 0>>

\* C11: with the slider at 100% (fraction 1.0) and a cap of at least the
\* visible count, the sampling step returns the visible index list itself:
\* same elements, same length, same order.
C11_FullRateReturnsVisible ==
    (/\ lastOp = "sampled"
     /\ sampleRate = 100
     /\ maxPoints >= Len(visibleIndices))
    => indicesToRender = visibleIndices

\* C11 witness: two visible rows at 100% under a cap that does not bind
\* have been returned in their order.
C11_Witness ==
    /\ lastOp = "sampled"
    /\ sampleRate = 100
    /\ maxPoints = SmallCap
    /\ visibleIndices = <<1, 3>>
    /\ indicesToRender = <<1, 3>>


-----------------------------------------------------------------------------
(* SpecGene: gene selection, getGeneExpression (app.js:1285-1344) and the  *)
(* single-slot geneExpressionCache written by createPointCloud             *)
(* (app.js:2327-2369).  Expression values are whole numbers.               *)

\* sparseMatrix.geneNames, in matrix column order.
GeneNames == <<"g1", "g2">>

\* sparseMatrix.shape[0]: the number of cells.
GeneCells == 3

\* Gene selections made in one run of the model.
MaxSelects == 2

\* Number of significand bits of a Float32Array element (app.js:1299):
\* whole numbers up to 2^24 are held exactly.
Float32Exact == 16777216

\* Spacing of the float32 numbers around the non-negative whole number n.
RECURSIVE Float32Spacing(_, _)
Float32Spacing(n, u) ==
    IF n < Float32Exact * u THEN u ELSE Float32Spacing(n, 2 * u)

\* A store to a Float32Array element as if the element were a double.
FroundIdentity(n) == n

\* A store to a Float32Array element (app.js:1335): the number is rounded to
\* the nearest float32, ties to the even significand.
Fround(n) ==
    LET a  == IF n < 0 THEN 0 - n ELSE n
        u  == Float32Spacing(a, 1)
        q  == a \div u
        r  == a % u
        up == (2 * r > u) \/ (2 * r = u /\ q % 2 = 1)
        m  == (IF up THEN q + 1 ELSE q) * u
    IN  IF n < 0 THEN 0 - m ELSE m

\* A variant of the lookup that resolves an absent name to the first gene.
GeneIndexOfFirst(geneName) ==
    IF \E k \in 1..Len(GeneNames) : GeneNames[k] = geneName
    THEN (CHOOSE k \in 1..Len(GeneNames) : GeneNames[k] = geneName) - 1
    ELSE 0

\* app.js:1292: geneNames.indexOf(geneName), -1 when absent.
GeneIndexOf(geneName) ==
    IF \E k \in 1..Len(GeneNames) : GeneNames[k] = geneName
    THEN (CHOOSE k \in 1..Len(GeneNames) : GeneNames[k] = geneName) - 1
    ELSE 0 - 1

\* app.js:1299: new Float32Array(nCells).
ZeroVector == [c \in 0..(GeneCells - 1) |-> 0]

\* A slice that starts one element late.
SliceLate(arr, start, end) == SubSeq(arr, start + 2, end)

\* A slice that reads one element past its end.
SliceWide(arr, start, end) == SubSeq(arr, start + 1, Min(end + 1, Len(arr)))

\* zarr.get(arr, [zarr.slice(start, end)]): elements start..end-1.
Slice(arr, start, end) == SubSeq(arr, start + 1, end)

\* app.js:1333-1336: the scatter loop from counter i on; a write outside a
\* typed array is ignored.
RECURSIVE Scatter(_, _, _, _)
Scatter(result, geneIndices, geneData, i) ==
    IF i >= Len(geneIndices) THEN result
    ELSE LET cellIdx == geneIndices[i + 1]
         IN  Scatter(IF cellIdx \in DOMAIN result
                     THEN [result EXCEPT ![cellIdx] = Fround(geneData[i + 1])]
                     ELSE result,
                     geneIndices, geneData, i + 1)

\* app.js:1324-1325: the slice bounds of a gene.
GeneStart(indptr, geneIdx) == indptr[geneIdx + 1]
GeneEnd(indptr, geneIdx)   == indptr[geneIdx + 2]

\* app.js:1329-1336: the dense vector built from the gene's slices.
DenseFromSlices(matrix, start, end) ==
    Scatter(ZeroVector, Slice(matrix.indices, start, end),
            Slice(matrix.data, start, end), 0)

\* Columns a gene can have in the store: (cell, value) pairs in increasing
\* cell order, no cell twice.
GeneColumnChoices ==
    { << >>,
      << <<1, 3>>, <<GeneCells - 1, 4>> >>,
      << <<0, Float32Exact + 1>> >>,
      [k \in 1..GeneCells |-> <<k - 1, 2>>] }

\* The CSC arrays of a matrix whose gene k has column cols[k].
RECURSIVE Concat(_)
Concat(seqs) == IF seqs = << >> THEN << >> ELSE Head(seqs) \o Concat(Tail(seqs))

RECURSIVE Indptr(_, _)
Indptr(cols, from) ==
    IF cols = << >> THEN <<from>>
    ELSE <<from>> \o Indptr(Tail(cols), from + Len(Head(cols)))

CscOf(cols) ==
    [indptr  |-> Indptr(cols, 0),
     indices |-> [k \in 1..Len(Concat(cols)) |-> Concat(cols)[k][1]],
     data    |-> [k \in 1..Len(Concat(cols)) |-> Concat(cols)[k][2]]]

Matrices == {CscOf(cols) : cols \in [1..Len(GeneNames) -> GeneColumnChoices]}


\* One activation of createPointCloud colouring by gene geneName:
\* pc = "init"     suspended in getGeneExpression at app.js:1307-1312
\* pc = "slice"    suspended in getGeneExpression at app.js:1329-1330
\* pc = "done"     getGeneExpression returned result, the cache was written
\* pc = "cached"   the cache already held the gene, nothing was fetched
\* pc = "rejected" a store request failed and the activation ended
\* pc = "notfound" getGeneExpression returned null at app.js:1293-1296
\* fetched is TRUE once the activation has suspended on a store request.
GeneRun(geneName, pc, result, fetched) ==
    [geneName |-> geneName, pc |-> pc, result |-> result, fetched |-> fetched]

InitGene ==
    /\ allData = [i \in 0..(GeneCells - 1) |-> EmptyRow]
    /\ activeFilters = << >>
    /\ visibleIndices = AllIndices(allData)
    /\ selectedGene = ""
    /\ geneExpressionCache = EmptyGeneCache
    /\ cachedZarrArrays = NullArrays
    /\ geneRuns = << >>
    /\ xMatrix \in Matrices
    /\ LoaderUnused
    /\ SampleUnused
    /\ DiscoveryUnused
    /\ RestUnused
    /\ lastOp = "init"

\* app.js:2337-2358: createPointCloud stores the vector it was waiting for
\* under the gene name it read when it started.
GeneCacheEntry(geneName, data) == [geneName |-> geneName, data |-> data]

\* getGeneExpression from app.js:1323 on, for activation k with the index
\* pointer array indptr: either it suspends on the slice requests or it
\* returns the zero vector at once and createPointCloud writes the cache.
GeneAfterIndptr(k, geneName, indptr, fetched) ==
    LET geneIdx == GeneIndexOf(geneName)
    IN  IF GeneEnd(indptr, geneIdx) > GeneStart(indptr, geneIdx)
        THEN /\ geneRuns' = [j \in 1..k |->
                    IF j = k THEN GeneRun(geneName, "slice", ZeroVector, TRUE)
                    ELSE geneRuns[j]]
             /\ UNCHANGED geneExpressionCache
        ELSE /\ geneRuns' = [j \in 1..k |->
                    IF j = k THEN GeneRun(geneName, "done", ZeroVector, fetched)
                    ELSE geneRuns[j]]
             /\ geneExpressionCache' = GeneCacheEntry(geneName, ZeroVector)

\* The null getGeneExpression returns at app.js:1288 and app.js:1295.
NullVector == << >>

\* Gene names that are not in geneNames.
AbsentGenes == {"g0"}

\* createPointCloud colouring by gene g, up to its first suspension
\* (app.js:2309-2335), with getGeneExpression up to its first await
\* (app.js:1285-1312): the lookup of g comes before any store request, and
\* on null createPointCloud only warns (app.js:2362-2364).
CreatePointCloudGene(g) ==
    /\ Len(geneRuns) < MaxSelects
    /\ visibleIndices # << >>
    /\ IF geneExpressionCache.geneName = g
       THEN /\ geneRuns' = Append(geneRuns,
                                  GeneRun(g, "cached", geneExpressionCache.data, FALSE))
            /\ UNCHANGED <<geneExpressionCache, cachedZarrArrays>>
       ELSE IF GeneIndexOf(g) = 0 - 1
       THEN /\ geneRuns' = Append(geneRuns, GeneRun(g, "notfound", NullVector, FALSE))
            /\ UNCHANGED <<geneExpressionCache, cachedZarrArrays>>
       ELSE IF cachedZarrArrays.null
       THEN /\ geneRuns' = Append(geneRuns, GeneRun(g, "init", ZeroVector, TRUE))
            /\ UNCHANGED <<geneExpressionCache, cachedZarrArrays>>
       ELSE /\ GeneAfterIndptr(Len(geneRuns) + 1, g, cachedZarrArrays.indptr, FALSE)
            /\ UNCHANGED cachedZarrArrays
    /\ UNCHANGED <<restVars, discoveryVars, allData, activeFilters, visibleIndices, xMatrix,
                   loaderVars, sampleVars>>

\* selectGene (app.js:1737-1761): a name in geneNames becomes the selected
\* gene and the point cloud is rebuilt.
SelectGene(g) ==
    /\ \E k \in 1..Len(GeneNames) : GeneNames[k] = g
    /\ selectedGene' = g
    /\ lastOp' = "selectGene"
    /\ CreatePointCloudGene(g)

\* getGeneExpression reached, through createPointCloud, with a name that
\* is not in geneNames.
GetGeneExpressionAbsent(g) ==
    /\ g \in AbsentGenes
    /\ selectedGene' = g
    /\ lastOp' = "absentGene"
    /\ CreatePointCloudGene(g)

\* app.js:1307-1321: the three opens and the indptr read have resolved.
GeneInitResolves(k) ==
    /\ k \in 1..Len(geneRuns)
    /\ geneRuns[k].pc = "init"
    /\ cachedZarrArrays' = [null |-> FALSE, indptr |-> xMatrix.indptr]
    /\ GeneAfterIndptr(k, geneRuns[k].geneName, xMatrix.indptr, TRUE)
    /\ lastOp' = "geneInit"
    /\ UNCHANGED <<restVars, discoveryVars, allData, activeFilters, visibleIndices, selectedGene,
                   xMatrix, loaderVars, sampleVars>>

\* app.js:1329-1343 and app.js:2337-2358: both slice reads have resolved.
GeneSliceResolves(k) ==
    /\ k \in 1..Len(geneRuns)
    /\ geneRuns[k].pc = "slice"
    /\ LET geneIdx == GeneIndexOf(geneRuns[k].geneName)
           result  == DenseFromSlices(xMatrix,
                          GeneStart(cachedZarrArrays.indptr, geneIdx),
                          GeneEnd(cachedZarrArrays.indptr, geneIdx))
       IN  /\ geneRuns' = [geneRuns EXCEPT ![k] =
                              GeneRun(geneRuns[k].geneName, "done", result, TRUE)]
           /\ geneExpressionCache' = GeneCacheEntry(geneRuns[k].geneName, result)
    /\ lastOp' = "geneSlice"
    /\ UNCHANGED <<restVars, discoveryVars, allData, activeFilters, visibleIndices, selectedGene,
                   cachedZarrArrays, xMatrix, loaderVars, sampleVars>>

\* A store request of activation k fails: getGeneExpression throws and
\* createPointCloud ends without touching the cache.
GeneFetchFails(k) ==
    /\ k \in 1..Len(geneRuns)
    /\ geneRuns[k].pc \in {"init", "slice"}
    /\ geneRuns' = [geneRuns EXCEPT ![k].pc = "rejected"]
    /\ lastOp' = "geneFail"
    /\ UNCHANGED <<restVars, discoveryVars, allData, activeFilters, visibleIndices, selectedGene,
                   geneExpressionCache, cachedZarrArrays, xMatrix,
                   loaderVars, sampleVars>>

NextGene ==
    \/ \E g \in SeqToSet(GeneNames) : SelectGene(g)
    \/ \E g \in AbsentGenes : GetGeneExpressionAbsent(g)
    \/ \E k \in 1..MaxSelects : GeneInitResolves(k)
    \/ \E k \in 1..MaxSelects : GeneSliceResolves(k)
    \/ \E k \in 1..MaxSelects : GeneFetchFails(k)

SpecGene == InitGene /\ [][NextGene]_vars

\* C5: gene A is selected, then gene B; once both expression fetches have
\* resolved, in either order, geneExpressionCache holds B's name and vector.
C5_LatestSelectionWins ==
    (/\ Len(geneRuns) = 2
     /\ geneRuns[1].geneName # geneRuns[2].geneName
     /\ geneRuns[1].pc = "done" /\ geneRuns[1].fetched
     /\ geneRuns[2].pc = "done" /\ geneRuns[2].fetched)
    => /\ geneExpressionCache.geneName = geneRuns[2].geneName
       /\ geneExpressionCache.data = geneRuns[2].result

\* The value the store holds for cell c of gene geneName: the data entry
\* paired with c in the gene's CSC range, 0 when c is not listed.
StoredValue(geneName, c) ==
    LET geneIdx == GeneIndexOf(geneName)
        K == {k \in (xMatrix.indptr[geneIdx + 1] + 1)..xMatrix.indptr[geneIdx + 2] :
                 xMatrix.indices[k] = c}
    IN  IF K = {} THEN 0 ELSE xMatrix.data[CHOOSE k \in K : TRUE]

\* n is a float32: a multiple of the float32 spacing at its magnitude.
IsFloat32(n) ==
    LET a == IF n < 0 THEN 0 - n ELSE n
    IN  a % Float32Spacing(a, 1) = 0

Distance(a, b) == IF a < b THEN b - a ELSE a - b

\* C6 as claimed: the vector getGeneExpression returns holds, at every cell,
\* the value stored for it in the gene's CSC range, and 0 elsewhere.
C6_DenseEqualsStored_Claimed ==
    \A k \in 1..Len(geneRuns) :
        geneRuns[k].pc = "done" =>
            \A c \in 0..(GeneCells - 1) :
                geneRuns[k].result[c] = StoredValue(geneRuns[k].geneName, c)

\* C6 amended: the vector holds, at every cell, a float32 nearest to the
\* value stored for it in the gene's CSC range (the stored value itself
\* whenever it is a float32), and 0 at every cell that is not listed.
C6_DenseIsNearestFloat32 ==
    \A k \in 1..Len(geneRuns) :
        geneRuns[k].pc = "done" =>
            \A c \in 0..(GeneCells - 1) :
                LET v == StoredValue(geneRuns[k].geneName, c)
                    r == geneRuns[k].result[c]
                IN  /\ IsFloat32(r)
                    /\ \A x \in (v - 2)..(v + 2) :
                           IsFloat32(x) => Distance(r, v) <= Distance(x, v)

\* C6 witness: getGeneExpression has returned the vector of a gene with two
\* non-zero entries, at cell 1 and at the last cell, and zeros elsewhere.
C6_Witness ==
    \E k \in 1..Len(geneRuns) :
        /\ geneRuns[k].pc = "done"
        /\ StoredValue(geneRuns[k].geneName, 0) = 0
        /\ StoredValue(geneRuns[k].geneName, 1) = 3
        /\ geneRuns[k].result =
               [c \in 0..(GeneCells - 1) |->
                    IF c = 1 THEN 3 ELSE IF c = GeneCells - 1 THEN 4 ELSE 0]

\* The activation added by this step, if it is one for an absent gene name.
AbsentRunAdded ==
    /\ Len(geneRuns') = Len(geneRuns) + 1
    /\ geneRuns'[Len(geneRuns')].geneName \notin SeqToSet(GeneNames)

\* C17: getGeneExpression called with a name that is not in geneNames
\* returns null without issuing a store request, and the call leaves
\* geneExpressionCache and cachedZarrArrays as they were; the activation
\* never fetches afterwards.
C17_AbsentGeneReturnsNull ==
    [][/\ AbsentRunAdded =>
           /\ geneRuns'[Len(geneRuns')].pc = "notfound"
           /\ geneRuns'[Len(geneRuns')].result = NullVector
           /\ geneExpressionCache' = geneExpressionCache
           /\ cachedZarrArrays' = cachedZarrArrays
       /\ \A k \in 1..Len(geneRuns') :
              geneRuns'[k].geneName \notin SeqToSet(GeneNames) =>
                  ~ geneRuns'[k].fetched]_vars

\* C17 witness: a gene was fetched and cached, the matrix handles are
\* open, and then getGeneExpression was called with an absent name.
C17_Witness ==
    /\ Len(geneRuns) = 2
    /\ geneRuns[1].pc = "done" /\ geneRuns[1].fetched
    /\ geneRuns[2].pc = "notfound"
    /\ ~ cachedZarrArrays.null
    /\ geneExpressionCache.geneName = geneRuns[1].geneName

\* The positions of the indices and data arrays that belong to the gene of
\* activation k: indptr[g]..indptr[g+1]-1, counted from 0.
GeneRange(k) ==
    LET geneIdx == GeneIndexOf(geneRuns[k].geneName)
    IN  {p \in 0..(Len(xMatrix.indices) - 1) :
            /\ GeneStart(xMatrix.indptr, geneIdx) <= p
            /\ p < GeneEnd(xMatrix.indptr, geneIdx)}

\* C29: getGeneExpression asks for slices of indices and data only when
\* the gene's range is not empty, and what it returns is built from the
\* positions of that range alone: a cell is non-zero exactly when the
\* range lists it; with an empty range the vector is all zeros.
C29_OnlyGeneSliceRead ==
    \A k \in 1..Len(geneRuns) :
        /\ geneRuns[k].pc = "slice" => GeneRange(k) # {}
        /\ geneRuns[k].pc = "done" =>
              /\ \A c \in 0..(GeneCells - 1) :
                    geneRuns[k].result[c] # 0
                        <=> \E p \in GeneRange(k) : xMatrix.indices[p + 1] = c
              /\ GeneRange(k) = {} => geneRuns[k].result = ZeroVector

\* C29 witness: the first gene selected had an empty range and its zero
\* vector was returned; the second had entries, stored after those of
\* another gene, and its vector has been returned.
C29_Witness ==
    /\ Len(geneRuns) = 2
    /\ geneRuns[1].pc = "done" /\ GeneRange(1) = {}
    /\ geneRuns[1].result = ZeroVector
    /\ geneRuns[2].pc = "done" /\ GeneRange(2) # {}
    /\ geneRuns[2].result # ZeroVector
    /\ Len(xMatrix.indices) > 0

\* C18: cachedZarrArrays is written at most once: every step that ends the
\* initialisation of app.js:1307-1321, and so has just read indptr from
\* the store, finds cachedZarrArrays still null.
C18_HandlesWrittenOnce ==
    [][lastOp' = "geneInit" => cachedZarrArrays.null]_vars


-----------------------------------------------------------------------------
(* Spec: a session after discovery.  The UI events that ask for obs        *)
(* columns (colour-by change, filter attribute selection, the debounced    *)
(* updateFilter) run up to their next await; store requests resolve or     *)
(* fail in any order.  The session state is handled as one record so that  *)
(* the synchronous call chains of the code can be composed.                *)

\* Number of rows of the session's row table (allData.length).
NCells == 2

\* Suspended activations (pending fetches and delays) at any one time.
MaxInFlight == 2

\* Store fetches issued for one column in one run of the model.
MaxFetches == 2

\* Filters present at any one time in the session.
MaxSessionFilters == 1

Rows == 0..(NCells - 1)

\* Contents of the obs group: a numeric array, a categorical column stored
\* as codes and categories, and a string array.  One store is clean; the
\* other has a NaN in the numeric array and a code outside the categories.
ObsStores ==
    {[age     |-> [i \in 1..NCells |-> IF c = 2 /\ i = 1 THEN NaNVal ELSE Num(i)],
      cluster |-> [codes      |-> [i \in 1..NCells |-> IF i = 1 THEN c ELSE 1],
                   categories |-> <<"A", "B">>],
      label   |-> [i \in 1..NCells |-> IF i = 1 THEN Str("") ELSE Str("x")]] :
        c \in {0, 2}}

\* app.js:764-777 loadCategoricalColumn: result[i] = categories[codes[i]],
\* undefined when the code is outside the categories.
LoadCategoricalColumn(column) ==
    [i \in 1..Len(column.codes) |->
        IF column.codes[i] + 1 \in 1..Len(column.categories)
        THEN Str(column.categories[column.codes[i] + 1])
        ELSE Undefined]

\* values[i] of a JavaScript array (0-based), undefined past its end.
At(values, i) == IF i + 1 \in 1..Len(values) THEN values[i + 1] ELSE Undefined

\* app.js:839: typeof rawVal === 'number' ? rawVal : parseFloat(rawVal).
\* The strings of the model hold no digits, so parseFloat gives NaN.
ParseNumber(rawVal) == IF rawVal.t \in {"num", "nan"} THEN rawVal ELSE NaNVal

\* app.js:855: String(values[i] || '').
ToCategory(rawVal) == JsOr(rawVal, Str(""))

\* app.js:825 and app.js:869: the default of a column's type.
DefaultValue(col) == IF ColumnType(col) = "continuous" THEN Num(0) ELSE Str("")

\* app.js:841-844: the running range after the rows before i.
RECURSIVE RangeAfter(_, _, _)
RangeAfter(range, values, i) ==
    IF i >= NCells THEN range
    ELSE LET val == ParseNumber(At(values, i))
         IN  RangeAfter(IF val.t = "nan" THEN range
                        ELSE [min |-> Min(range.min, val.n),
                              max |-> Max(range.max, val.n)],
                        values, i + 1)

\* A load that marks its column loaded and forgets the columns loaded
\* before (a variant of StoreColumn).
StoreColumnForgetful(st, col, values) ==
    IF ColumnType(col) = "continuous"
    THEN [st EXCEPT
            !.allData = [i \in Rows |->
                            [st.allData[i] EXCEPT ![col] = ParseNumber(At(values, i))]],
            !.continuousRanges[col] = RangeAfter(st.continuousRanges[col], values, 0),
            !.loadedColumns = {col}]
    ELSE [st EXCEPT
            !.allData = [i \in Rows |->
                            [st.allData[i] EXCEPT ![col] = ToCategory(At(values, i))]],
            !.attributeValues[col] =
                @ \cup ({ToCategory(At(values, i)).s : i \in Rows} \ {""}),
            !.loadedColumns = {col}]

\* A load that writes the fetched values as they are, undefined included
\* (a variant of StoreColumn).
StoreColumnRaw(st, col, values) ==
    [st EXCEPT
        !.allData = [i \in Rows |-> [st.allData[i] EXCEPT ![col] = At(values, i)]],
        !.loadedColumns = @ \cup {col}]

\* app.js:829-864: the fetched values are written to the rows, the column's
\* summary is updated and the column is marked loaded.
StoreColumn(st, col, values) ==
    IF ColumnType(col) = "continuous"
    THEN [st EXCEPT
            !.allData = [i \in Rows |->
                            [st.allData[i] EXCEPT ![col] = ParseNumber(At(values, i))]],
            !.continuousRanges[col] = RangeAfter(st.continuousRanges[col], values, 0),
            !.loadedColumns = @ \cup {col}]
    ELSE [st EXCEPT
            !.allData = [i \in Rows |->
                            [st.allData[i] EXCEPT ![col] = ToCategory(At(values, i))]],
            !.attributeValues[col] =
                @ \cup ({ToCategory(At(values, i)).s : i \in Rows} \ {""}),
            !.loadedColumns = @ \cup {col}]

\* app.js:797-804: ensureColumnLoaded goes on to fetch only a column that is
\* not loaded and has metadata.
NeedsFetch(st, col) == col \notin st.loadedColumns /\ col \in ColumnOrder

\* A suspended activation.  kind "fetch": ensureColumnLoaded(col) waits for
\* the store (app.js:816 or app.js:820); kind "delay": ensureColumnsLoaded
\* waits 10 ms (app.js:890).  caller is the function that awaits it, filter
\* the filter of the attribute handler, rest the columns of the batch still
\* to load.
Activation(kind, col, caller, filter, rest) ==
    [kind |-> kind, col |-> col, caller |-> caller, filter |-> filter, rest |-> rest]

\* ensureColumnLoaded(col) issues its store request.
StartFetch(st, col, caller, filter, rest) ==
    [st EXCEPT !.calls = Append(@, Activation("fetch", col, caller, filter, rest)),
               !.fetches[col] = @ + 1]

\* app.js:2062-2074 updateLegend: it makes sure the colour-by column is loaded.
UpdateLegend(st) ==
    IF NeedsFetch(st, st.colorBy)
    THEN StartFetch(st, st.colorBy, "updateLegend", 0, << >>)
    ELSE st

\* app.js:2291-2325 createPointCloud up to its await; when the column is
\* loaded it goes on to render and to call updateLegend (app.js:2464).
CreatePointCloud(st) ==
    IF st.visibleIndices = << >> THEN st
    ELSE IF NeedsFetch(st, st.colorBy)
    THEN StartFetch(st, st.colorBy, "createPointCloud", 0, << >>)
    ELSE UpdateLegend(st)

\* app.js:2782-2789 throttleFilterUpdate: the pending timer is replaced.
ThrottleFilterUpdate(st) == [st EXCEPT !.filterUpdateTimeout = TRUE]

\* A configuration that keeps the value set and the range the filter had
\* (a variant of ConfigureFilter).
ConfigureFilterKeep(filter, attribute, st) ==
    IF attribute \in column_names_continuous
    THEN [filter EXCEPT !.type = "continuous",
                        !.range = RangeOf(st.continuousRanges[attribute].min,
                                          st.continuousRanges[attribute].max)]
    ELSE [filter EXCEPT !.type = "categorical",
                        !.values = ValuesOf(st.attributeValues[attribute])]

\* app.js:2636-2652: the attribute handler after its await; the filter
\* object is configured from the attribute the handler was called with.
ConfigureFilter(filter, attribute, st) ==
    IF attribute \in column_names_continuous
    THEN [filter EXCEPT !.type = "continuous",
                        !.range = RangeOf(st.continuousRanges[attribute].min,
                                          st.continuousRanges[attribute].max),
                        !.values = NullValues]
    ELSE IF attribute \in column_names_categorical
    THEN [filter EXCEPT !.type = "categorical",
                        !.values = ValuesOf(st.attributeValues[attribute]),
                        !.range = NullRange]
    ELSE [filter EXCEPT !.type = "null", !.values = NullValues, !.range = NullRange]

AfterAttributeLoad(st, id, attribute) ==
    ThrottleFilterUpdate(
        [st EXCEPT !.activeFilters =
            [k \in 1..Len(st.activeFilters) |->
                IF st.activeFilters[k].id = id
                THEN ConfigureFilter(st.activeFilters[k], attribute, st)
                ELSE st.activeFilters[k]]])

\* app.js:2818-2864: updateFilter after its await.
AfterColumnsLoaded(st) ==
    CreatePointCloud(
        [st EXCEPT !.visibleIndices =
            ApplyFilters(st.allData, st.activeFilters, AllIndices(st.allData))])

\* A batch that issues the requests of all its columns at once (a variant
\* of BatchLoad).
RECURSIVE BatchLoadParallel(_, _)
BatchLoadParallel(st, toLoad) ==
    IF toLoad = << >> THEN st
    ELSE BatchLoadParallel(
            StartFetch(st, Head(toLoad), "ensureColumnsLoaded", 0, << >>),
            Tail(toLoad))

\* app.js:887-891: the next column of the batch; a column that needs no
\* fetch returns at once and the loop waits its 10 ms.
BatchLoad(st, toLoad) ==
    IF NeedsFetch(st, Head(toLoad))
    THEN StartFetch(st, Head(toLoad), "ensureColumnsLoaded", 0, Tail(toLoad))
    ELSE [st EXCEPT !.calls =
            Append(@, Activation("delay", Head(toLoad), "ensureColumnsLoaded",
                                 0, Tail(toLoad)))]

\* app.js:2813-2815 and app.js:879.
ColumnsToLoad(st) ==
    LET configured == SelectSeq(st.activeFilters, LAMBDA f : ~ Unconfigured(f))
        filterColumns == [k \in 1..Len(configured) |-> configured[k].attribute]
    IN  SelectSeq(filterColumns, LAMBDA col : col \notin st.loadedColumns)

\* app.js:2792-2816 updateFilter up to its first await.
UpdateFilter(st) ==
    IF Len(st.activeFilters) = 0
    THEN CreatePointCloud([st EXCEPT !.visibleIndices = AllIndices(st.allData)])
    ELSE IF ColumnsToLoad(st) = << >>
    THEN AfterColumnsLoaded(st)
    ELSE BatchLoad(st, ColumnsToLoad(st))


\* The session state as one record, and the variables set from it.
Session ==
    [allData |-> allData, loadedColumns |-> loadedColumns,
     continuousRanges |-> continuousRanges, attributeValues |-> attributeValues,
     activeFilters |-> activeFilters, visibleIndices |-> visibleIndices,
     colorBy |-> colorBy, filterUpdateTimeout |-> filterUpdateTimeout,
     calls |-> calls, fetches |-> fetches]

Becomes(st) ==
    /\ allData' = st.allData
    /\ loadedColumns' = st.loadedColumns
    /\ continuousRanges' = st.continuousRanges
    /\ attributeValues' = st.attributeValues
    /\ activeFilters' = st.activeFilters
    /\ visibleIndices' = st.visibleIndices
    /\ colorBy' = st.colorBy
    /\ filterUpdateTimeout' = st.filterUpdateTimeout
    /\ calls' = st.calls
    /\ fetches' = st.fetches

\* The model's bounds on suspended activations and on fetches per column.
WithinBounds(st) ==
    /\ Len(st.calls) <= MaxInFlight
    /\ \A c \in ColumnOrder : st.fetches[c] <= MaxFetches

RemoveAt(seq, k) == [j \in 1..(Len(seq) - 1) |-> IF j < k THEN seq[j] ELSE seq[j + 1]]

\* app.js:1412-1453 and app.js:1633-1658: after discovery every row exists
\* with no obs column loaded, every row is visible and the colour-by
\* dropdown shows the first categorical column of the store's column order.
\* In this specification lastOp is the phase of loadData: "init" before its
\* first render, "loadData" while that render waits for its column, "ready"
\* once the event listeners are set up (app.js:1675), "error" when loadData
\* has caught an exception (app.js:1685-1690).
Init ==
    /\ allData = [i \in Rows |-> EmptyRow]
    /\ loadedColumns = {}
    /\ continuousRanges = InitialRanges
    /\ attributeValues = InitialAttributeValues
    /\ activeFilters = << >>
    /\ visibleIndices = AllIndices(allData)
    /\ colorBy \in column_names_categorical
    /\ filterUpdateTimeout = FALSE
    /\ obsStore \in ObsStores
    /\ calls = << >>
    /\ fetches = [c \in ColumnOrder |-> 0]
    /\ loadLog = [finished |-> {}, failed |-> {}]
    /\ GeneUnused
    /\ SampleUnused
    /\ DiscoveryUnused
    /\ RestUnused
    /\ lastOp = "init"

\* app.js:1667-1669: loadData renders for the first time and waits for it.
LoadDataRender ==
    /\ lastOp = "init"
    /\ Becomes(CreatePointCloud(Session))
    /\ lastOp' = "loadData"
    /\ UNCHANGED <<restVars, discoveryVars, obsStore, loadLog, geneVars, sampleVars>>

\* app.js:3438-3456: the colour-by dropdown changes and the point cloud is
\* rebuilt.
ColorByChange(c) ==
    LET st == CreatePointCloud([Session EXCEPT !.colorBy = c])
    IN  /\ lastOp = "ready"
        /\ c # colorBy
        /\ WithinBounds(st)
        /\ Becomes(st)
        /\ UNCHANGED <<restVars, discoveryVars, lastOp, obsStore, loadLog, geneVars, sampleVars>>

\* app.js:3461: a filter id is built from the clock and a random string and
\* is never given twice; the model names a new filter by an id no filter of
\* the list holds (RemoveFilter detaches the handlers still waiting on the
\* removed one).
FreshId(limit) ==
    CHOOSE id \in 1..limit :
        \A k \in 1..Len(activeFilters) : activeFilters[k].id # id

FreshFilterId == FreshId(MaxSessionFilters)

\* app.js:3460-3475: the Add Filter button.
AddFilterUpTo(limit) ==
    /\ lastOp = "ready"
    /\ Len(activeFilters) < limit
    /\ activeFilters' = Append(activeFilters, NewFilter(FreshId(limit)))
    /\ UNCHANGED <<restVars, discoveryVars, lastOp, allData, visibleIndices,
                   loaderVars, geneVars, sampleVars>>

AddFilter == AddFilterUpTo(MaxSessionFilters)

\* app.js:2625-2654: a filter's attribute dropdown changes to a column.
FilterAttributeChange(k, attribute) ==
    LET picked == [Session EXCEPT !.activeFilters[k].attribute = attribute]
        st == IF NeedsFetch(picked, attribute)
              THEN StartFetch(picked, attribute, "attribute",
                              activeFilters[k].id, << >>)
              ELSE AfterAttributeLoad(picked, activeFilters[k].id, attribute)
    IN  /\ lastOp = "ready"
        /\ k \in 1..Len(activeFilters)
        /\ WithinBounds(st)
        /\ Becomes(st)
        /\ UNCHANGED <<restVars, discoveryVars, lastOp, obsStore, loadLog, geneVars, sampleVars>>

\* app.js:2659-2673: a filter's remove button.  An attribute handler still
\* waiting for its column keeps the removed filter object, which is no
\* longer in the list: its filter becomes 0, the id of no filter.
RemoveFilter(k) ==
    /\ lastOp = "ready"
    /\ k \in 1..Len(activeFilters)
    /\ Becomes(ThrottleFilterUpdate(
            [Session EXCEPT
                !.activeFilters = RemoveAt(activeFilters, k),
                !.calls = [j \in 1..Len(calls) |->
                              IF calls[j].filter = activeFilters[k].id
                              THEN [calls[j] EXCEPT !.filter = 0]
                              ELSE calls[j]]]))
    /\ UNCHANGED <<restVars, discoveryVars, lastOp, obsStore, loadLog, geneVars, sampleVars>>

\* app.js:2785-2788: the debounce timer fires and updateFilter runs up to
\* its first await.
TimerFires ==
    LET st == UpdateFilter([Session EXCEPT !.filterUpdateTimeout = FALSE])
    IN  /\ filterUpdateTimeout
        /\ WithinBounds(st)
        /\ Becomes(st)
        /\ UNCHANGED <<restVars, discoveryVars, lastOp, obsStore, loadLog, geneVars, sampleVars>>

\* What the awaiting caller does once ensureColumnLoaded has returned.
Continue(st, act) ==
    CASE act.caller = "createPointCloud" -> UpdateLegend(st)
      [] act.caller = "updateLegend" -> st
      [] act.caller = "attribute" -> AfterAttributeLoad(st, act.filter, act.col)
      [] act.caller = "ensureColumnsLoaded" ->
            [st EXCEPT !.calls =
                Append(@, Activation("delay", act.col, act.caller, 0, act.rest))]

\* app.js:812-866: the store answers; the values are decoded, written to
\* the rows, the column is marked loaded and the caller goes on.
FetchSucceeds(k) ==
    /\ k \in 1..Len(calls)
    /\ calls[k].kind = "fetch"
    /\ LET act == calls[k]
           values == IF EncodingType(act.col) = "categorical"
                     THEN LoadCategoricalColumn(obsStore[act.col])
                     ELSE obsStore[act.col]
           st == Continue(StoreColumn([Session EXCEPT !.calls = RemoveAt(calls, k)],
                                      act.col, values), act)
       IN  /\ WithinBounds(st)
           /\ Becomes(st)
           /\ loadLog' = [loadLog EXCEPT !.finished = @ \cup {act.col}]
    /\ lastOp' = IF lastOp = "loadData" THEN "ready" ELSE lastOp
    /\ UNCHANGED <<restVars, discoveryVars, obsStore, geneVars, sampleVars>>

\* app.js:819-826: the request for a plain array fails; the inner catch
\* fills the values with the type's default and the column is processed
\* and marked loaded as usual.
\* app.js:814-817 and app.js:865-872: the request for a categorical column
\* fails; the outer catch reads isNumericData, which is declared in the
\* try block (app.js:812) and is out of scope, so with nCells > 0 the call
\* throws: nothing is written, the column is not marked loaded and the
\* awaiting caller is abandoned.
FetchFails(k) ==
    /\ k \in 1..Len(calls)
    /\ calls[k].kind = "fetch"
    /\ LET act == calls[k]
           rest == [Session EXCEPT !.calls = RemoveAt(calls, k)]
           st == IF EncodingType(act.col) = "categorical"
                 THEN rest
                 ELSE Continue(StoreColumn(rest, act.col,
                                   [i \in 1..NCells |-> DefaultValue(act.col)]), act)
       IN  /\ WithinBounds(st)
           /\ Becomes(st)
           /\ loadLog' = [finished |-> loadLog.finished \cup {act.col},
                          failed   |-> loadLog.failed \cup {act.col}]
    /\ lastOp' = IF lastOp # "loadData" THEN lastOp
                 ELSE IF EncodingType(calls[k].col) = "categorical" THEN "error"
                 ELSE "ready"
    /\ UNCHANGED <<restVars, discoveryVars, obsStore, geneVars, sampleVars>>

\* app.js:887-891 and app.js:2816: the 10 ms wait of ensureColumnsLoaded
\* ends; the batch goes on, or updateFilter scans the rows.
DelayEnds(k) ==
    /\ k \in 1..Len(calls)
    /\ calls[k].kind = "delay"
    /\ LET act == calls[k]
           rest == [Session EXCEPT !.calls = RemoveAt(calls, k)]
           st == IF act.rest = << >> THEN AfterColumnsLoaded(rest)
                 ELSE BatchLoad(rest, act.rest)
       IN  /\ WithinBounds(st)
           /\ Becomes(st)
    /\ UNCHANGED <<restVars, discoveryVars, lastOp, obsStore, loadLog, geneVars, sampleVars>>

Next ==
    \/ LoadDataRender
    \/ \E c \in ColumnOrder : ColorByChange(c)
    \/ AddFilter
    \/ \E k \in 1..MaxSessionFilters, c \in ColumnOrder : FilterAttributeChange(k, c)
    \/ \E k \in 1..MaxSessionFilters : RemoveFilter(k)
    \/ TimerFires
    \/ \E k \in 1..MaxInFlight : FetchSucceeds(k)
    \/ \E k \in 1..MaxInFlight : FetchFails(k)
    \/ \E k \in 1..MaxInFlight : DelayEnds(k)

Spec == Init /\ [][Next]_vars

\* Fetches of col that are waiting for the store.
PendingFetches(col) ==
    {k \in 1..Len(calls) : calls[k].kind = "fetch" /\ calls[k].col = col}

\* C1 (as claimed): a column whose fetch failed holds the default of its
\* type in every row and is marked loaded.
C1_FailedColumnDefaulted ==
    \A c \in loadLog.failed :
        /\ c \in loadedColumns
        /\ \A i \in Rows : allData[i][c] = DefaultValue(c)

\* C3 (as claimed): once a call of ensureColumnLoaded for a column has
\* completed and none is pending, no step issues a fetch for that column.
C3_SecondCallNoFetch ==
    [][\A c \in ColumnOrder :
          (c \in loadLog.finished /\ PendingFetches(c) = {})
              => fetches'[c] = fetches[c]]_vars

\* C4 (as claimed): a column is fetched at most once and two loads of one
\* column never overlap.
C4_FetchedAtMostOnce ==
    \A c \in ColumnOrder :
        /\ fetches[c] <= 1
        /\ Cardinality(PendingFetches(c)) <= 1


\* C15: within a session loadedColumns only grows: no step (load, failed
\* load, filter change, recompute, colour change) removes a column from it.
C15_LoadedColumnsOnlyGrow ==
    [][loadedColumns \subseteq loadedColumns']_vars

\* C15 witness: every column has been loaded over several loads, one of
\* them after a failed fetch, and a filter has been configured.
C15_Witness ==
    /\ loadedColumns = ColumnOrder
    /\ loadLog.failed # {}
    /\ Len(activeFilters) > 0
    /\ ~ Unconfigured(activeFilters[1])

\* C16: for every column in loadedColumns, every row of allData has the
\* column's key set (an absent key reads as undefined).
C16_LoadedColumnKeyInEveryRow ==
    \A c \in loadedColumns : \A i \in Rows : allData[i][c] # Undefined

\* C16 witness: the categorical column whose first code lies outside the
\* categories is loaded (row 0 holds ""), and so is the numeric column
\* whose first value is NaN.
C16_Witness ==
    /\ obsStore.cluster.codes[1] = 2
    /\ {"cluster", "age"} \subseteq loadedColumns
    /\ allData[0]["cluster"] = Str("")
    /\ allData[0]["age"] = NaNVal

\* This step is the row scan of updateFilter (app.js:2818-2858): the timer
\* fired with nothing left to load, or the last wait of the batch ended.
ScanStep ==
    \/ /\ TimerFires
       /\ Len(activeFilters) > 0
       /\ ColumnsToLoad(Session) = << >>
    \/ \E k \in 1..MaxInFlight :
          /\ DelayEnds(k)
          /\ calls[k].rest = << >>

\* C19: whenever updateFilter scans the rows, the attribute of every filter
\* the scan evaluates (attribute and type both set) is in loadedColumns
\* and no fetch of that attribute is waiting for the store.
C19_ScanOnlyLoadedColumns ==
    [][ScanStep =>
          \A j \in 1..Len(activeFilters) :
              ~ Unconfigured(activeFilters[j]) =>
                  /\ activeFilters[j].attribute \in loadedColumns
                  /\ PendingFetches(activeFilters[j].attribute) = {}]_vars

\* C20: once the categorical column of a store with a code outside the
\* categories range has been loaded, every row holds the default "" for
\* it: the decode failed and nothing of the column was decoded.
C20_OutOfRangeCodeDefaultFilled ==
    (/\ \E i \in 1..NCells :
            obsStore.cluster.codes[i] + 1 \notin 1..Len(obsStore.cluster.categories)
     /\ "cluster" \in loadedColumns)
    => \A i \in Rows : allData[i]["cluster"] = Str("")

\* The numbers stored for column c, NaN left out.
StoredNumbers(c) == {allData[i][c].n : i \in {j \in Rows : allData[j][c].t = "num"}}

\* C27: once a numeric column is loaded every row holds a number or NaN
\* for it, and the column's range is the minimum and the maximum of the
\* numbers stored (the initial range when every row holds NaN).
C27_RangeIsMinMaxOfStored ==
    \A c \in column_names_continuous \cap loadedColumns :
        /\ \A i \in Rows : allData[i][c].t \in {"num", "nan"}
        /\ IF StoredNumbers(c) = {}
           THEN continuousRanges[c] = InitialRanges[c]
           ELSE /\ continuousRanges[c].min \in StoredNumbers(c)
                /\ continuousRanges[c].max \in StoredNumbers(c)
                /\ \A n \in StoredNumbers(c) :
                       continuousRanges[c].min <= n /\ n <= continuousRanges[c].max

\* C21: ensureColumnLoaded never rejects: when the store request of a
\* column of updateFilter's batch fails, ensureColumnsLoaded goes on to its
\* 10 ms wait, so the suspended fetch is replaced by a suspended wait and
\* updateFilter stays on its way to the scan.
C21_LoadNeverRejects ==
    [][\A k \in 1..MaxInFlight :
          (FetchFails(k) /\ calls[k].caller = "ensureColumnsLoaded") =>
              /\ Len(calls') = Len(calls)
              /\ \E j \in 1..Len(calls') :
                    /\ calls'[j].kind = "delay"
                    /\ calls'[j].col = calls[k].col]_vars

\* The type of the filter is the type of the column it names, and a
\* value set holds values of that column only.
SelfConsistent(filter) ==
    /\ filter.type = ColumnType(filter.attribute)
    /\ filter.type = "categorical"
          => filter.values.set \subseteq attributeValues[filter.attribute]

\* C33: whenever updateFilter scans the rows, every filter the scan
\* evaluates (attribute and type both set) is self-consistent: its type
\* and its value set belong to the attribute it names.
C33_EvaluatedFilterSelfConsistent ==
    [][ScanStep =>
          \A j \in 1..Len(activeFilters) :
              ~ Unconfigured(activeFilters[j])
                  => SelfConsistent(activeFilters[j])]_vars

\* No debounce timer, column load or recompute is pending.
Quiescent ==
    /\ lastOp = "ready"
    /\ ~ filterUpdateTimeout
    /\ calls = << >>

\* C32: once the timers, column loads and recomputes have all completed,
\* visibleIndices is the full recompute over the current filter list and
\* the current row table.
C32_QuiescentIsFullRecompute ==
    Quiescent => visibleIndices = ScanRows(allData, activeFilters)

\* This step configures filter j: the attribute handler, its column
\* loaded, writes the type with the value set or the range.
Configures(j) ==
    /\ j \in 1..Len(activeFilters)
    /\ Len(activeFilters') = Len(activeFilters)
    /\ activeFilters'[j].id = activeFilters[j].id
    /\ ~ Unconfigured(activeFilters'[j])
    /\ <<activeFilters'[j].type, activeFilters'[j].values, activeFilters'[j].range>>
          # <<activeFilters[j].type, activeFilters[j].values, activeFilters[j].range>>

\* The filter is in the default state of the attribute it names: every
\* distinct value selected, or the full summary range.
DefaultState(filter, ranges, values) ==
    /\ filter.type = ColumnType(filter.attribute)
    /\ filter.type = "categorical"
          => filter.values = ValuesOf(values[filter.attribute])
    /\ filter.type = "continuous"
          => filter.range = RangeOf(ranges[filter.attribute].min,
                                    ranges[filter.attribute].max)

\* C34: a filter that has just been configured with its default state
\* keeps every row: the recompute with it gives what the recompute
\* without it gives.
C34_DefaultStateKeepsEveryRow ==
    [][\A j \in 1..MaxSessionFilters :
          (/\ Configures(j)
           /\ DefaultState(activeFilters'[j], continuousRanges', attributeValues'))
             => FilterCandidates(allData', AllIndices(allData'), activeFilters'[j])
                   = AllIndices(allData')]_vars

\* C37: in every state of a session visibleIndices is a strictly
\* increasing list of row indices of the row table.
C37_VisibleIndicesIncreasing ==
    \A k \in 1..Len(visibleIndices) :
        /\ visibleIndices[k] \in 0..(Cardinality(DOMAIN allData) - 1)
        /\ k > 1 => visibleIndices[k - 1] < visibleIndices[k]

\* C37 witness: a recompute over a configured filter has left only the
\* last row visible.
C37_Witness ==
    /\ Len(activeFilters) = 1
    /\ ~ Unconfigured(activeFilters[1])
    /\ ~ filterUpdateTimeout
    /\ calls = << >>
    /\ visibleIndices = <<NCells - 1>>

-----------------------------------------------------------------------------
(* SpecLoadData: the discovery part of loadData (app.js:1347-1690): the    *)
(* obs columns are classified from their encoding attribute, the obsm      *)
(* catalog is built, the default x and y sources are chosen and the first  *)
(* render follows.  lastOp is the step loadData has completed.             *)

\* Entries of potentialEmbeddings (app.js:990-1005) the stores of the model
\* may hold, in the order of that list.
potentialEmbeddings == <<"Global_Spatial", "spatial", "X_pca", "X_umap">>

\* app.js:1404: the columns the classification overrides to numeric.
numericColumns == {"global_x", "global_y", "global_z"}

\* The obs columns of the stores of this specification (column-order).
LoadDataColumns == {"age", "global_x"}

\* What the request for a column's .zattrs yields: an encoding-type, a
\* document without one ("missing") or no document at all ("unreadable").
EncodingAttrs == {"array", "categorical", "string-array", "missing", "unreadable"}

\* Layout of an embedding in the store.
Absent           == [kind |-> "absent", columns |-> << >>, dims |-> 0]
DataFrame(cols)  == [kind |-> "dataframe", columns |-> cols, dims |-> 0]
ArrayOf(maxDim)  == [kind |-> "array", columns |-> << >>, dims |-> maxDim]

\* Largest second dimension of an array embedding in the stores.
MaxDims == 2

EmbeddingLayouts(embName) ==
    CASE embName = "Global_Spatial" ->
            {Absent, DataFrame(<<"global_x", "global_y">>),
             DataFrame(<<"global_y", "global_x">>), DataFrame(<<"global_x">>)}
      [] embName = "spatial" ->
            {Absent, DataFrame(<<"x", "y">>), DataFrame(<<"y", "x">>),
             DataFrame(<<"y">>), ArrayOf(1), ArrayOf(MaxDims)}
      [] embName = "X_pca" -> {Absent, ArrayOf(MaxDims)}
      [] OTHER -> {Absent, ArrayOf(0), ArrayOf(MaxDims)}

EmbeddingNames == {potentialEmbeddings[k] : k \in 1..Len(potentialEmbeddings)}

StoreAttrs ==
    {[obs |-> o, obsm |-> m] :
        o \in [LoadDataColumns -> EncodingAttrs],
        m \in {f \in [EmbeddingNames -> UNION {EmbeddingLayouts(e) : e \in EmbeddingNames}] :
                  \A e \in EmbeddingNames : f[e] \in EmbeddingLayouts(e)}}

\* app.js:1415-1433: the metadata of one column.  encodingType is null
\* when the attribute request fails and undefined when the document has no
\* encoding-type; both are falsy and neither equals 'array'.
ClassifyColumn(colName, attr) ==
    LET isNumeric == attr = "array" \/ colName \in numericColumns
    IN  [type |-> IF isNumeric THEN "continuous" ELSE "categorical",
         encodingType |-> IF attr \in {"missing", "unreadable"} THEN "array" ELSE attr]

\* app.js:1067-1074 and app.js:1144-1151: a catalog entry; columnName is ""
\* for the null of an array dimension.
CoordSource(embName, colIdx, colName) ==
    [null |-> FALSE, embedding |-> embName, columnIndex |-> colIdx,
     columnName |-> colName]

\* Entries for every dimension of an array embedding, however many (a
\* variant of EmbeddingSources).
EmbeddingSourcesAll(embName, layout) ==
    CASE layout.kind = "dataframe" ->
            [k \in 1..Len(layout.columns) |->
                CoordSource(embName, k - 1, layout.columns[k])]
      [] layout.kind = "array" ->
            [k \in 1..layout.dims |-> CoordSource(embName, k - 1, "")]
      [] OTHER -> << >>

\* app.js:1062-1151: the entries one discovered embedding adds.
EmbeddingSources(embName, layout) ==
    CASE layout.kind = "dataframe" ->
            [k \in 1..Len(layout.columns) |->
                CoordSource(embName, k - 1, layout.columns[k])]
      [] layout.kind = "array" ->
            [k \in 1..Min(layout.dims, 20) |-> CoordSource(embName, k - 1, "")]
      [] OTHER -> << >>

\* app.js:969-1174 discoverCoordinateSources: the embeddings found are
\* processed in the order of potentialEmbeddings.
RECURSIVE Catalog(_, _)
Catalog(obsm, k) ==
    IF k > Len(potentialEmbeddings) THEN << >>
    ELSE EmbeddingSources(potentialEmbeddings[k], obsm[potentialEmbeddings[k]])
            \o Catalog(obsm, k + 1)

\* Array.prototype.find, given the elements that pass the test in their
\* order: the first of them, else undefined.
Find(hits) == IF hits = << >> THEN NullCoord ELSE Head(hits)

IsGlobalX(c)  == c.embedding = "Global_Spatial" /\ c.columnName = "global_x"
IsGlobalY(c)  == c.embedding = "Global_Spatial" /\ c.columnName = "global_y"
IsSpatialX(c) == c.embedding = "spatial" /\ (c.columnName = "x" \/ c.columnIndex = 0)
IsSpatialY(c) == c.embedding = "spatial" /\ (c.columnName = "y" \/ c.columnIndex = 1)

\* A choice that tries the spatial pair before the Global_Spatial pair (a
\* variant of DefaultCoordinates).
DefaultCoordinatesSpatialFirst(obsm) ==
    LET globalX  == Find(SelectSeq(obsm, IsGlobalX))
        globalY  == Find(SelectSeq(obsm, IsGlobalY))
        spatialX == Find(SelectSeq(obsm, IsSpatialX))
        spatialY == Find(SelectSeq(obsm, IsSpatialY))
    IN  IF ~ spatialX.null /\ ~ spatialY.null
        THEN [error |-> FALSE, x |-> spatialX, y |-> spatialY]
        ELSE IF ~ globalX.null /\ ~ globalY.null
        THEN [error |-> FALSE, x |-> globalX, y |-> globalY]
        ELSE IF Len(obsm) >= 2
        THEN [error |-> FALSE, x |-> obsm[1], y |-> obsm[2]]
        ELSE [error |-> TRUE, x |-> NullCoord, y |-> NullCoord]

\* app.js:1462-1493: the default x and y sources, or the thrown error.
DefaultCoordinates(obsm) ==
    LET globalX  == Find(SelectSeq(obsm, IsGlobalX))
        globalY  == Find(SelectSeq(obsm, IsGlobalY))
        spatialX == Find(SelectSeq(obsm, IsSpatialX))
        spatialY == Find(SelectSeq(obsm, IsSpatialY))
    IN  IF ~ globalX.null /\ ~ globalY.null
        THEN [error |-> FALSE, x |-> globalX, y |-> globalY]
        ELSE IF ~ spatialX.null /\ ~ spatialY.null
        THEN [error |-> FALSE, x |-> spatialX, y |-> spatialY]
        ELSE IF Len(obsm) >= 2
        THEN [error |-> FALSE, x |-> obsm[1], y |-> obsm[2]]
        ELSE [error |-> TRUE, x |-> NullCoord, y |-> NullCoord]

\* app.js:1386-1390 and the declarations at app.js:30-37, 747: the rows
\* exist, nothing is discovered, selected or visible.
InitLoadData ==
    /\ allData = [i \in Rows |-> EmptyRow]
    /\ activeFilters = << >>
    /\ visibleIndices = << >>
    /\ storeAttrs \in StoreAttrs
    /\ columnMetadata = << >>
    /\ availableCoordinateSources = << >>
    /\ selectedXCoord = NullCoord
    /\ selectedYCoord = NullCoord
    /\ RestUnused
    /\ LoaderUnused
    /\ GeneUnused
    /\ SampleUnused
    /\ lastOp = "init"

\* app.js:1406-1453: every column of column-order gets its metadata.
DiscoverColumns ==
    /\ lastOp = "init"
    /\ columnMetadata' = [c \in LoadDataColumns |-> ClassifyColumn(c, storeAttrs.obs[c])]
    /\ lastOp' = "columns"
    /\ UNCHANGED <<restVars, allData, activeFilters, visibleIndices, storeAttrs,
                   availableCoordinateSources, selectedXCoord, selectedYCoord,
                   loaderVars, geneVars, sampleVars>>

\* app.js:1459: the catalog is discovered.
DiscoverCoordinateSources ==
    /\ lastOp = "columns"
    /\ availableCoordinateSources' = Catalog(storeAttrs.obsm, 1)
    /\ lastOp' = "sources"
    /\ UNCHANGED <<restVars, allData, activeFilters, visibleIndices, storeAttrs,
                   columnMetadata, selectedXCoord, selectedYCoord,
                   loaderVars, geneVars, sampleVars>>

\* app.js:1462-1493: the default axes are chosen.
SelectDefaultCoordinates ==
    /\ lastOp = "sources"
    /\ ~ DefaultCoordinates(availableCoordinateSources).error
    /\ selectedXCoord' = DefaultCoordinates(availableCoordinateSources).x
    /\ selectedYCoord' = DefaultCoordinates(availableCoordinateSources).y
    /\ lastOp' = "coordinates"
    /\ UNCHANGED <<restVars, allData, activeFilters, visibleIndices, storeAttrs,
                   columnMetadata, availableCoordinateSources,
                   loaderVars, geneVars, sampleVars>>

\* app.js:1488-1489 and app.js:1685-1690: with fewer than two sources and
\* no pair the selection throws and loadData ends in its catch.
NoCoordinateSources ==
    /\ lastOp = "sources"
    /\ DefaultCoordinates(availableCoordinateSources).error
    /\ lastOp' = "error"
    /\ UNCHANGED <<restVars, allData, activeFilters, visibleIndices, discoveryVars,
                   loaderVars, geneVars, sampleVars>>

\* app.js:1633-1636 and app.js:1669: every row becomes visible and the
\* first point cloud is built (sample rate 100%).
FirstRender ==
    /\ lastOp = "coordinates"
    /\ visibleIndices' = AllIndices(allData)
    /\ indicesToRender' = AllIndices(allData)
    /\ lastOp' = "rendered"
    /\ UNCHANGED <<restVars, allData, activeFilters, discoveryVars, loaderVars, geneVars,
                   sampleRate, maxPoints>>

NextLoadData ==
    \/ DiscoverColumns
    \/ DiscoverCoordinateSources
    \/ SelectDefaultCoordinates
    \/ NoCoordinateSources
    \/ FirstRender

SpecLoadData == InitLoadData /\ [][NextLoadData]_vars


\* The default selection has been made or has failed.
SelectionDone == lastOp \in {"coordinates", "rendered", "error"}

\* The store holds a Global_Spatial dataframe with columns global_x and
\* global_y.
GlobalSpatialFrame ==
    /\ storeAttrs.obsm["Global_Spatial"].kind = "dataframe"
    /\ {"global_x", "global_y"} \subseteq SeqToSet(storeAttrs.obsm["Global_Spatial"].columns)

\* C12: whenever the store holds a Global_Spatial dataframe with named
\* columns global_x and global_y, startup selects Global_Spatial:global_x
\* as X and Global_Spatial:global_y as Y, whatever else was discovered and
\* in whatever order.
C12_GlobalSpatialPreferred ==
    (SelectionDone /\ GlobalSpatialFrame) =>
        /\ lastOp # "error"
        /\ selectedXCoord.embedding = "Global_Spatial"
        /\ selectedXCoord.columnName = "global_x"
        /\ selectedYCoord.embedding = "Global_Spatial"
        /\ selectedYCoord.columnName = "global_y"

\* C12 witness: the frame lists global_y before global_x and a spatial x/y
\* frame and two array embeddings were discovered too; the Global_Spatial
\* pair has been selected, X being the frame's second column.
C12_Witness ==
    /\ lastOp = "rendered"
    /\ storeAttrs.obsm["Global_Spatial"] = DataFrame(<<"global_y", "global_x">>)
    /\ storeAttrs.obsm["spatial"] = DataFrame(<<"x", "y">>)
    /\ storeAttrs.obsm["X_pca"] # Absent
    /\ storeAttrs.obsm["X_umap"] # Absent
    /\ selectedXCoord = CoordSource("Global_Spatial", 1, "global_x")
    /\ selectedYCoord = CoordSource("Global_Spatial", 0, "global_y")


\* Two different catalog entries form the Global_Spatial pair, or a spatial
\* x/y pair (x by name or as first column, y by name or as second column).
GlobalPairExists ==
    \E a, b \in 1..Len(availableCoordinateSources) :
        /\ a # b
        /\ IsGlobalX(availableCoordinateSources[a])
        /\ IsGlobalY(availableCoordinateSources[b])

SpatialPairExists ==
    \E a, b \in 1..Len(availableCoordinateSources) :
        /\ a # b
        /\ IsSpatialX(availableCoordinateSources[a])
        /\ IsSpatialY(availableCoordinateSources[b])

\* C13 (as claimed): when neither the Global_Spatial pair nor a spatial x/y
\* pair exists, X and Y are the first two sources of the catalog; startup
\* fails with the no-coordinate-source error exactly when fewer than two
\* sources were discovered, and then nothing is rendered.
C13_FirstTwoOrError ==
    SelectionDone =>
        /\ (lastOp = "error") <=> (Len(availableCoordinateSources) < 2)
        /\ (~ GlobalPairExists /\ ~ SpatialPairExists
            /\ Len(availableCoordinateSources) >= 2)
           => /\ selectedXCoord = availableCoordinateSources[1]
              /\ selectedYCoord = availableCoordinateSources[2]
        /\ lastOp = "error" => (visibleIndices = << >> /\ indicesToRender = << >>)

\* C26: when the spatial embedding is a dataframe with columns x and y, in
\* either order, and there is no Global_Spatial global_x/global_y pair,
\* startup selects the spatial column named x as X and the spatial column
\* named y as Y.
C26_SpatialNamedPair ==
    (/\ SelectionDone
     /\ storeAttrs.obsm["spatial"] \in {DataFrame(<<"x", "y">>), DataFrame(<<"y", "x">>)}
     /\ ~ GlobalPairExists)
    => /\ selectedXCoord.embedding = "spatial" /\ selectedXCoord.columnName = "x"
       /\ selectedYCoord.embedding = "spatial" /\ selectedYCoord.columnName = "y"

\* C14 (as claimed): a column whose encoding attribute is missing or
\* unreadable is classified as a numeric (continuous) column with "array"
\* encoding.
C14_MissingEncodingIsNumericArray ==
    lastOp # "init" =>
        \A c \in LoadDataColumns :
            storeAttrs.obs[c] \in {"missing", "unreadable"} =>
                /\ columnMetadata[c].type = "continuous"
                /\ columnMetadata[c].encodingType = "array"

-----------------------------------------------------------------------------
(* SpecThrottle: throttleFilterUpdate (app.js:2780-2789) against a clock.  *)
(* setTimeout runs its callback no earlier than the delay it was given and *)
(* possibly later: the callback has to wait for the event loop to be free. *)

\* app.js:2788: the delay given to setTimeout, in ms.
ThrottleDelay == 100

\* The clock advances TimeStep ms at a time, MaxTicks times at most.
TimeStep == 50
MaxTicks == 5

\* Calls of throttleFilterUpdate in one run of the model.
MaxThrottleCalls == 3

\* A pending timer: id is the handle setTimeout returned (the number of the
\* call that set it), due the earliest time its callback may run.
Timer(id, due) == [id |-> id, due |-> due]

\* The handle filterUpdateTimeout holds: that of the latest call, 0 for the
\* null it holds before the first call (app.js:2781).
TimeoutHandle == Len(throttleCalls)

\* A clearTimeout that cancels nothing (a variant of ClearTimeout).
ClearTimeoutNoop(pending, handle) == pending

\* app.js:2783-2785: clearTimeout(handle); the handle of a timer that has
\* fired, or null, cancels nothing.
ClearTimeout(pending, handle) == {t \in pending : t.id # handle}

InitThrottle ==
    /\ allData = [i \in 0..0 |-> EmptyRow]
    /\ activeFilters = << >>
    /\ visibleIndices = AllIndices(allData)
    /\ ThrottleUnused
    /\ CoordUnused
    /\ DimUnused
    /\ BatchUnused
    /\ ChangeUnused
    /\ RenderUnused
    /\ LoaderUnused
    /\ GeneUnused
    /\ SampleUnused
    /\ DiscoveryUnused
    /\ lastOp = "init"

\* app.js:2782-2789: the pending timer is cancelled and a new one is set.
ThrottleFilterUpdateCall ==
    /\ Len(throttleCalls) < MaxThrottleCalls
    /\ timers' = ClearTimeout(timers, TimeoutHandle)
                    \cup {Timer(Len(throttleCalls) + 1, now + ThrottleDelay)}
    /\ throttleCalls' = Append(throttleCalls, now)
    /\ lastOp' = "throttleFilterUpdate"
    /\ UNCHANGED <<changeVars, renderVars, now, updateStarts, coordVars, dimVars, batchToLoad,
                   discoveryVars, allData, activeFilters, visibleIndices,
                   loaderVars, geneVars, sampleVars>>

\* app.js:2786-2788: the callback of a timer that is due runs and starts
\* updateFilter; after is the number of calls made so far.
TimerCallback ==
    /\ \E t \in timers :
          /\ t.due <= now
          /\ timers' = timers \ {t}
          /\ updateStarts' = Append(updateStarts,
                                    [at |-> now, after |-> Len(throttleCalls),
                                     timer |-> t.id])
    /\ lastOp' = "updateFilter"
    /\ UNCHANGED <<changeVars, renderVars, now, throttleCalls, coordVars, dimVars, batchToLoad,
                   discoveryVars, allData, activeFilters, visibleIndices,
                   loaderVars, geneVars, sampleVars>>

\* Time passes, whether or not a timer is due.
TimePasses ==
    /\ now < MaxTicks * TimeStep
    /\ now' = now + TimeStep
    /\ UNCHANGED <<changeVars, renderVars, timers, throttleCalls, updateStarts, coordVars, dimVars,
                   batchToLoad, lastOp, discoveryVars, allData, activeFilters,
                   visibleIndices, loaderVars, geneVars, sampleVars>>

NextThrottle ==
    \/ ThrottleFilterUpdateCall
    \/ TimerCallback
    \/ TimePasses

SpecThrottle == InitThrottle /\ [][NextThrottle]_vars

\* Call j is the last of its burst: no call follows it within the delay.
LastOfBurst(j) ==
    \/ j = Len(throttleCalls)
    \/ throttleCalls[j + 1] - throttleCalls[j] >= ThrottleDelay

\* The updateFilter runs started after call j and before call j + 1.
RunsAfter(j) == {k \in 1..Len(updateStarts) : updateStarts[k].after = j}

\* C23 as claimed: at most one timer is pending, no run starts inside a
\* burst, and every burst that a later call has ended (a call more than
\* the delay after the burst's last call) has started exactly one
\* updateFilter run after its last call.
C23_ExactlyOnePerBurst ==
    /\ Cardinality(timers) <= 1
    /\ \A j \in 1..Len(throttleCalls) :
          /\ ~ LastOfBurst(j) => RunsAfter(j) = {}
          /\ (/\ j < Len(throttleCalls)
              /\ throttleCalls[j + 1] - throttleCalls[j] > ThrottleDelay)
             => Cardinality(RunsAfter(j)) = 1

\* C23 amended: at most one timer is pending; every updateFilter run starts
\* after the last call of a burst, at least the delay after that call; a
\* burst starts at most one run (none when its timer, running late, is
\* cancelled by the first call of the next burst).
C23_AtMostOnePerBurst ==
    /\ Cardinality(timers) <= 1
    /\ \A k \in 1..Len(updateStarts) :
          /\ updateStarts[k].after >= 1
          /\ LastOfBurst(updateStarts[k].after)
          /\ updateStarts[k].at >= throttleCalls[updateStarts[k].after] + ThrottleDelay
    /\ \A j \in 1..Len(throttleCalls) : Cardinality(RunsAfter(j)) <= 1

\* C23 witness: two calls less than the delay apart, one run after the
\* second; then a third call and one run after it.
C23_Witness ==
    /\ Len(throttleCalls) = 3
    /\ throttleCalls[2] - throttleCalls[1] < ThrottleDelay
    /\ throttleCalls[2] > throttleCalls[1]
    /\ Len(updateStarts) = 2
    /\ updateStarts[1].after = 2
    /\ updateStarts[2].after = 3

-----------------------------------------------------------------------------
(* SpecCoord: loadCoordinateValues (app.js:1185-1275), one action per run  *)
(* to the next await, against every way the store can answer.              *)

\* Largest nCells of the calls.
CoordCells == 3

\* Chunk files the store holds for the dimension, and their largest length.
MaxChunks == 3
MaxChunkLen == 2

\* The values of chunk k: told apart by chunk and by position.
ChunkData(k, len) == [i \in 1..len |-> 10 * k + i]

\* What the store holds for chunk file k: nothing (the request fails), or
\* an array of 0..MaxChunkLen values.
ChunkFiles(k) ==
    {[ok |-> FALSE, data |-> << >>]}
    \cup {[ok |-> TRUE, data |-> ChunkData(k, len)] : len \in 0..MaxChunkLen}

\* direct: the answer to the request for obs/<path> or for the named
\* column of the embedding; full: what opening the embedding as one array
\* gives (a 2-D array, an array of another rank, a failure); chunks: the
\* chunk files <colIdx>.0, <colIdx>.1, ...
CoordStores ==
    UNION {{[direct |-> d, full |-> f, chunks |-> c] :
                d \in {"ok", "fails"},
                f \in {"2d", "not2d", "fails"},
                c \in {s \in [1..n -> UNION {ChunkFiles(k) : k \in 1..n}] :
                          \A k \in 1..n : s[k] \in ChunkFiles(k)}} :
           n \in 0..MaxChunks}

\* The coordinate sources the function is called with: an obs column, a
\* named column of a dataframe embedding, a dimension of an array
\* embedding, and a source of neither kind.
CoordArgs ==
    {[source |-> "obs",  embedding |-> "",               columnIndex |-> 0, columnName |-> ""],
     [source |-> "obsm", embedding |-> "Global_Spatial", columnIndex |-> 0, columnName |-> "global_x"],
     [source |-> "obsm", embedding |-> "X_pca",          columnIndex |-> 1, columnName |-> ""],
     [source |-> "none", embedding |-> "",               columnIndex |-> 0, columnName |-> ""]}

\* The column a direct request returns (app.js:1190 and app.js:1207) and
\* the column cut out of a 2-D array (app.js:1227-1231).
DirectColumn == <<7, 8>>
FullColumn   == <<5, 6>>

\* new Array(n).fill(0)
Zeros(n) == [i \in 1..n |-> 0]

\* A chunk result that is returned as it is when short (a variant of
\* ChunkResult).
ChunkResultUnpadded(result, nCells) ==
    IF Len(result) >= nCells
    THEN [threw |-> FALSE, value |-> SubSeq(result, 1, nCells)]
    ELSE IF Len(result) > 0
    THEN [threw |-> FALSE, value |-> result]
    ELSE [threw |-> TRUE, value |-> << >>]

\* app.js:1250-1262: after the chunk loop the result is cut to nCells or
\* padded with zeros, and an empty result throws.
ChunkResult(result, nCells) ==
    IF Len(result) >= nCells
    THEN [threw |-> FALSE, value |-> SubSeq(result, 1, nCells)]
    ELSE IF Len(result) > 0
    THEN [threw |-> FALSE, value |-> result \o Zeros(nCells - Len(result))]
    ELSE [threw |-> TRUE, value |-> << >>]

\* app.js:1263-1266: the catch around the index-based loading.
CatchDimension(outcome, nCells) ==
    IF outcome.threw THEN Zeros(nCells) ELSE outcome.value

\* The activation: pc is where it is suspended ("obs", "byName", "full",
\* "chunk") or "returned"; result and chunkIdx are the locals of the chunk
\* loop; value is what was returned and via the path that produced it.
CoordCall(arg, nCells, pc, result, chunkIdx, value, via) ==
    [arg |-> arg, nCells |-> nCells, pc |-> pc, result |-> result,
     chunkIdx |-> chunkIdx, value |-> value, via |-> via]

Returned(call, value, via) ==
    [call EXCEPT !.pc = "returned", !.value = value, !.via = via]

\* app.js:1240-1262: the test of the while loop; when it fails or the loop
\* was left, the result is completed and returned.
ChunkLoop(call, result, chunkIdx, goOn) ==
    IF goOn /\ Len(result) < call.nCells
    THEN [call EXCEPT !.pc = "chunk", !.result = result, !.chunkIdx = chunkIdx]
    ELSE Returned([call EXCEPT !.result = result, !.chunkIdx = chunkIdx],
                  CatchDimension(ChunkResult(result, call.nCells), call.nCells),
                  "chunks")

InitCoord ==
    /\ allData = [i \in 0..0 |-> EmptyRow]
    /\ activeFilters = << >>
    /\ visibleIndices = AllIndices(allData)
    /\ coordStore \in CoordStores
    /\ \E arg \in CoordArgs, nCells \in 0..CoordCells :
          coordCall = CoordCall(arg, nCells, "start", << >>, 0, << >>, "")
    /\ ThrottleUnused
    /\ DimUnused
    /\ BatchUnused
    /\ ChangeUnused
    /\ RenderUnused
    /\ LoaderUnused
    /\ GeneUnused
    /\ SampleUnused
    /\ DiscoveryUnused
    /\ lastOp = "init"

\* app.js:1186-1206 and app.js:1274: the call up to its first await, or
\* its return for a source that is neither obs nor obsm.
LoadCoordinateValues ==
    /\ coordCall.pc = "start"
    /\ coordCall' =
          IF coordCall.arg.source = "obs" THEN [coordCall EXCEPT !.pc = "obs"]
          ELSE IF coordCall.arg.source = "obsm"
          THEN IF coordCall.arg.columnName # ""
               THEN [coordCall EXCEPT !.pc = "byName"]
               ELSE [coordCall EXCEPT !.pc = "full"]
          ELSE Returned(coordCall, Zeros(coordCall.nCells), "default")
    /\ lastOp' = "loadCoordinateValues"
    /\ UNCHANGED <<changeVars, renderVars, throttleVars, coordStore, dimVars, batchToLoad,
                   discoveryVars, allData, activeFilters, visibleIndices,
                   loaderVars, geneVars, sampleVars>>

\* app.js:1188-1194: the obs request is answered.
\* app.js:1203-1212: the request for the named column is answered; on a
\* failure the function goes on to open the embedding as one array.
\* app.js:1218-1236: opening the embedding is answered; a 2-D array gives
\* the column, anything else leads to the chunk loop.
CoordRequestResolves ==
    /\ coordCall.pc \in {"obs", "byName", "full"}
    /\ coordCall' =
          CASE coordCall.pc = "obs" ->
                  IF coordStore.direct = "ok"
                  THEN Returned(coordCall, DirectColumn, "obs")
                  ELSE Returned(coordCall, Zeros(coordCall.nCells), "default")
            [] coordCall.pc = "byName" ->
                  IF coordStore.direct = "ok"
                  THEN Returned(coordCall, DirectColumn, "name")
                  ELSE [coordCall EXCEPT !.pc = "full"]
            [] coordCall.pc = "full" ->
                  IF coordStore.full = "2d"
                  THEN Returned(coordCall, FullColumn, "2d")
                  ELSE ChunkLoop(coordCall, << >>, 0, TRUE)
    /\ lastOp' = "request"
    /\ UNCHANGED <<changeVars, renderVars, throttleVars, coordStore, dimVars, batchToLoad,
                   discoveryVars, allData, activeFilters, visibleIndices,
                   loaderVars, geneVars, sampleVars>>

\* app.js:1241-1249: the request for chunk file chunkIdx is answered: its
\* values are appended, or the loop is left.
CoordChunkResolves ==
    /\ coordCall.pc = "chunk"
    /\ LET k == coordCall.chunkIdx + 1
       IN  coordCall' =
             IF k \in 1..Len(coordStore.chunks) /\ coordStore.chunks[k].ok
             THEN ChunkLoop(coordCall, coordCall.result \o coordStore.chunks[k].data,
                            coordCall.chunkIdx + 1, TRUE)
             ELSE ChunkLoop(coordCall, coordCall.result, coordCall.chunkIdx, FALSE)
    /\ lastOp' = "chunk"
    /\ UNCHANGED <<changeVars, renderVars, throttleVars, coordStore, dimVars, batchToLoad,
                   discoveryVars, allData, activeFilters, visibleIndices,
                   loaderVars, geneVars, sampleVars>>

NextCoord ==
    \/ LoadCoordinateValues
    \/ CoordRequestResolves
    \/ CoordChunkResolves

SpecCoord == InitCoord /\ [][NextCoord]_vars

\* The values of the chunk files from the first one up to the first one
\* the store does not hold.
RECURSIVE ReadableChunks(_, _)
ReadableChunks(chunks, k) ==
    IF k > Len(chunks) \/ ~ chunks[k].ok THEN << >>
    ELSE chunks[k].data \o ReadableChunks(chunks, k + 1)

\* C22: loadCoordinateValues always returns (no path leaves it by an
\* exception), and a value that comes from the chunk loop has exactly
\* nCells entries: the chunk files in chunk order, cut at nCells, followed
\* by zeros when they are too short, all zeros when the first chunk file
\* cannot be read.
C22_ChunksGiveNCells ==
    /\ coordCall.pc \in {"start", "obs", "byName", "full", "chunk", "returned"}
    /\ (coordCall.pc = "returned" /\ coordCall.via = "chunks") =>
          /\ Len(coordCall.value) = coordCall.nCells
          /\ \A i \in 1..coordCall.nCells :
                coordCall.value[i] =
                    IF i <= Len(ReadableChunks(coordStore.chunks, 1))
                    THEN ReadableChunks(coordStore.chunks, 1)[i]
                    ELSE 0

\* C22 witness: two chunk files were read, an empty one and one of two
\* values, and the result was padded to three entries.
C22_Witness ==
    /\ coordCall.pc = "returned"
    /\ coordCall.via = "chunks"
    /\ coordCall.nCells = 3
    /\ coordCall.chunkIdx = 2
    /\ coordCall.value = <<21, 22, 0>>

-----------------------------------------------------------------------------
(* SpecBatch: ensureColumnsLoaded (app.js:878-892) called, as updateFilter *)
(* calls it at app.js:2816, with a list of column names, in a session that *)
(* has finished its startup.  The store answers as in Spec.                *)

\* Longest list of column names the batch is called with.
MaxBatch == 3

BatchLists == UNION {[1..n -> ColumnOrder] : n \in 1..MaxBatch}

\* app.js:878-888: toLoad is computed once, before the first column is
\* asked for; the batch then runs up to its first await.
EnsureColumnsLoaded(colNames) ==
    LET toLoad == SelectSeq(colNames, LAMBDA col : col \notin loadedColumns)
        st == BatchLoad(Session, toLoad)
    IN  /\ lastOp = "ready"
        /\ calls = << >>
        /\ batchToLoad = << >>
        /\ toLoad # << >>
        /\ WithinBounds(st)
        /\ Becomes(st)
        /\ batchToLoad' = toLoad
        /\ UNCHANGED <<changeVars, renderVars, throttleVars, coordVars, dimVars, discoveryVars, lastOp,
                       obsStore, loadLog, geneVars, sampleVars>>

NextBatch ==
    \/ LoadDataRender
    \/ \E colNames \in BatchLists : EnsureColumnsLoaded(colNames)
    \/ \E k \in 1..MaxInFlight : FetchSucceeds(k)
    \/ \E k \in 1..MaxInFlight : FetchFails(k)
    \/ \E k \in 1..MaxInFlight : DelayEnds(k)

SpecBatch == Init /\ [][NextBatch]_vars

\* The suspended activations of the batch.
BatchCalls == {k \in 1..Len(calls) : calls[k].caller = "ensureColumnsLoaded"}

\* C28: the batch is at one column at a time, in list order: it has at
\* most one suspended activation, that activation is at the column whose
\* turn it is, and the load of every column before it has completed.
C28_BatchIsSequential ==
    /\ Cardinality(BatchCalls) <= 1
    /\ \A k \in BatchCalls :
          LET pos == Len(batchToLoad) - Len(calls[k].rest)
          IN  /\ pos \in 1..Len(batchToLoad)
              /\ calls[k].col = batchToLoad[pos]
              /\ calls[k].rest = SubSeq(batchToLoad, pos + 1, Len(batchToLoad))
              /\ \A p \in 1..(pos - 1) :
                    /\ batchToLoad[p] \in loadLog.finished
                    /\ batchToLoad[p] \in loadedColumns
                    /\ PendingFetches(batchToLoad[p]) = {}

\* C28 witness: the batch waits for the store's answer for its second
\* column, a column other than the first, which is loaded.
C28_Witness ==
    /\ Len(batchToLoad) >= 2
    /\ batchToLoad[1] # batchToLoad[2]
    /\ batchToLoad[1] \in loadedColumns
    /\ \E k \in BatchCalls :
          /\ calls[k].kind = "fetch"
          /\ calls[k].col = batchToLoad[2]

-----------------------------------------------------------------------------
(* SpecDims: the array branch of discoverCoordinateSources                 *)
(* (app.js:1076-1160) for one embedding: the number of dimensions is read  *)
(* from the opened array, else from its .zarray document, else found by    *)
(* probing the chunk files <dim>.0 one after the other.                    *)

\* app.js:1120: the probing loop runs for dim < 100.
ProbeLimit == 100

\* Most dimensions an embedding of the stores has.
MaxEmbDims == 101

DimChoices == {0, 1, 2, 19, 20, 21, 99, 100, MaxEmbDims}

\* An array embedding of the store: rank and dims are those of the array
\* (a 1-D array has one dimension); open and zarray say whether opening
\* the array and fetching its .zarray document succeed.  The store holds
\* the chunk file <dim>.0 for every dim below dims.
EmbStores ==
    {[rank |-> r, dims |-> d, open |-> o, zarray |-> z] :
        r \in {1, 2}, d \in DimChoices, o \in {"ok", "fails"},
        z \in {"ok", "notok", "fails"}}
    \ {s \in [rank : {1}, dims : DimChoices, open : {"ok", "fails"},
              zarray : {"ok", "notok", "fails"}] : s.dims # 1}

\* app.js:1084-1093 and app.js:1101-1106: maxDim from a shape.
DimsOfShape(store) == IF store.rank = 2 THEN store.dims ELSE 1

\* The activation: pc is the request it waits for ("open", "zarray",
\* "probe") or "done"; maxDim and dim are the locals of the code; probes
\* counts the chunk files asked for.
DimRun(pc, maxDim, dim, probes) ==
    [pc |-> pc, maxDim |-> maxDim, dim |-> dim, probes |-> probes]

InitDims ==
    /\ allData = [i \in 0..0 |-> EmptyRow]
    /\ activeFilters = << >>
    /\ visibleIndices = AllIndices(allData)
    /\ embStore \in EmbStores
    /\ dimRun = DimRun("open", 0, 0, 0)
    /\ ThrottleUnused
    /\ CoordUnused
    /\ BatchUnused
    /\ ChangeUnused
    /\ RenderUnused
    /\ LoaderUnused
    /\ GeneUnused
    /\ SampleUnused
    /\ DiscoveryUnused
    /\ lastOp = "init"

\* app.js:1116-1151: with maxDim known the entries are added; with maxDim
\* still 0 the probing loop starts with dim 0.
AfterShape(maxDim) ==
    IF maxDim = 0
    THEN /\ dimRun' = DimRun("probe", 0, 0, 1)
         /\ UNCHANGED availableCoordinateSources
    ELSE /\ dimRun' = DimRun("done", maxDim, 0, 0)
         /\ availableCoordinateSources' =
               availableCoordinateSources
                   \o EmbeddingSources("X_pca", ArrayOf(maxDim))

\* app.js:1083-1094: zarr.open of the embedding is answered.
OpenResolves ==
    /\ dimRun.pc = "open"
    /\ IF embStore.open = "ok"
       THEN AfterShape(DimsOfShape(embStore))
       ELSE /\ dimRun' = DimRun("zarray", 0, 0, 0)
            /\ UNCHANGED availableCoordinateSources
    /\ lastOp' = "open"
    /\ UNCHANGED <<changeVars, renderVars, throttleVars, coordVars, embStore, batchToLoad, allData,
                   activeFilters, visibleIndices, storeAttrs, columnMetadata,
                   selectedXCoord, selectedYCoord, loaderVars, geneVars,
                   sampleVars>>

\* app.js:1096-1112: the request for .zarray is answered.
ZarrayResolves ==
    /\ dimRun.pc = "zarray"
    /\ AfterShape(IF embStore.zarray = "ok" THEN DimsOfShape(embStore) ELSE 0)
    /\ lastOp' = "zarray"
    /\ UNCHANGED <<changeVars, renderVars, throttleVars, coordVars, embStore, batchToLoad, allData,
                   activeFilters, visibleIndices, storeAttrs, columnMetadata,
                   selectedXCoord, selectedYCoord, loaderVars, geneVars,
                   sampleVars>>

\* app.js:1118-1131 and app.js:1134-1151: the request for chunk file
\* <dim>.0 is answered; the loop goes on to the next dim below the limit,
\* or ends and the entries are added.
ProbeResolves ==
    /\ dimRun.pc = "probe"
    /\ LET found   == dimRun.dim < embStore.dims
           maxDim  == IF found THEN dimRun.dim + 1 ELSE dimRun.maxDim
           nextDim == dimRun.dim + 1
       IN  IF found /\ nextDim < ProbeLimit
           THEN /\ dimRun' = DimRun("probe", maxDim, nextDim, dimRun.probes + 1)
                /\ UNCHANGED availableCoordinateSources
           ELSE /\ dimRun' = DimRun("done", maxDim, dimRun.dim, dimRun.probes)
                /\ availableCoordinateSources' =
                      availableCoordinateSources
                          \o EmbeddingSources("X_pca", ArrayOf(maxDim))
    /\ lastOp' = "probe"
    /\ UNCHANGED <<changeVars, renderVars, throttleVars, coordVars, embStore, batchToLoad, allData,
                   activeFilters, visibleIndices, storeAttrs, columnMetadata,
                   selectedXCoord, selectedYCoord, loaderVars, geneVars,
                   sampleVars>>

NextDims ==
    \/ OpenResolves
    \/ ZarrayResolves
    \/ ProbeResolves

SpecDims == InitDims /\ [][NextDims]_vars

-----------------------------------------------------------------------------
(* SpecEdit: the filter panel of a session whose first render is done.     *)
(* Filters are added, given an attribute, edited with their range sliders  *)
(* and removed while column fetches and debounced recomputes are pending.  *)

\* Filters present at any one time in the filter panel.
MaxEditFilters == 2

\* app.js:1667-1675: the session once loadData has rendered, its colour-by
\* column c fetched and stored.
SessionAfterLoad(store, c) ==
    StoreColumn(
        [allData |-> [i \in Rows |-> EmptyRow], loadedColumns |-> {},
         continuousRanges |-> InitialRanges,
         attributeValues |-> InitialAttributeValues,
         activeFilters |-> << >>,
         visibleIndices |-> [k \in 1..NCells |-> k - 1],
         colorBy |-> c, filterUpdateTimeout |-> FALSE, calls |-> << >>,
         fetches |-> [col \in ColumnOrder |-> IF col = c THEN 1 ELSE 0]],
        c,
        IF EncodingType(c) = "categorical"
        THEN LoadCategoricalColumn(store[c]) ELSE store[c])

\* The session is coloured by the string column, so that the continuous
\* and the coded categorical column are still to be fetched.
InitEdit ==
    /\ obsStore \in ObsStores
    /\ colorBy = "label"
    /\ allData = SessionAfterLoad(obsStore, colorBy).allData
    /\ loadedColumns = SessionAfterLoad(obsStore, colorBy).loadedColumns
    /\ continuousRanges = SessionAfterLoad(obsStore, colorBy).continuousRanges
    /\ attributeValues = SessionAfterLoad(obsStore, colorBy).attributeValues
    /\ activeFilters = << >>
    /\ visibleIndices = AllIndices(allData)
    /\ filterUpdateTimeout = FALSE
    /\ calls = << >>
    /\ fetches = SessionAfterLoad(obsStore, colorBy).fetches
    /\ loadLog = [finished |-> {colorBy}, failed |-> {}]
    /\ GeneUnused
    /\ SampleUnused
    /\ DiscoveryUnused
    /\ RestUnused
    /\ lastOp = "ready"

\* app.js:2626-2631: the "Select attribute..." entry of a filter's dropdown
\* is chosen; the handler does nothing.
FilterAttributeEmpty(k) ==
    /\ lastOp = "ready"
    /\ k \in 1..Len(activeFilters)
    /\ UNCHANGED vars

\* Values a range slider can be moved to: the slider of a continuous
\* column spans the column's range (app.js:2527-2532), and a filter's
\* sliders stay in the page until the next renderFilters.
TimeSliderValues ==
    UNION {continuousRanges[c].min .. continuousRanges[c].max :
             c \in {col \in column_names_continuous :
                      continuousRanges[col].min # Inf}}

\* A min slider that leaves max where it is (a variant of TimeMinRange).
TimeMinRangeLoose(range, minVal) == [range EXCEPT !.min = minVal]

\* app.js:2688-2696: the range after the min slider moved to minVal.
TimeMinRange(range, minVal) ==
    [range EXCEPT !.min = minVal,
                  !.max = IF minVal > range.max THEN minVal ELSE range.max]

\* app.js:2711-2719: the range after the max slider moved to maxVal.
TimeMaxRange(range, maxVal) ==
    [range EXCEPT !.max = maxVal,
                  !.min = IF maxVal < range.min THEN maxVal ELSE range.min]

\* app.js:2677-2700: input on the min slider of filter k.
TimeMinInput(k, minVal) ==
    /\ lastOp = "ready"
    /\ k \in 1..Len(activeFilters)
    /\ ~ activeFilters[k].range.null
    /\ minVal \in TimeSliderValues
    /\ Becomes(ThrottleFilterUpdate(
            [Session EXCEPT !.activeFilters[k].range =
                                TimeMinRange(activeFilters[k].range, minVal)]))
    /\ UNCHANGED <<restVars, discoveryVars, lastOp, obsStore, loadLog,
                   geneVars, sampleVars>>

\* app.js:2702-2727: input on the max slider of filter k.
TimeMaxInput(k, maxVal) ==
    /\ lastOp = "ready"
    /\ k \in 1..Len(activeFilters)
    /\ ~ activeFilters[k].range.null
    /\ maxVal \in TimeSliderValues
    /\ Becomes(ThrottleFilterUpdate(
            [Session EXCEPT !.activeFilters[k].range =
                                TimeMaxRange(activeFilters[k].range, maxVal)]))
    /\ UNCHANGED <<restVars, discoveryVars, lastOp, obsStore, loadLog,
                   geneVars, sampleVars>>

\* The debounce timer set by the edits is pending throughout: the panel
\* is followed up to the recompute.
NextEdit ==
    \/ AddFilterUpTo(MaxEditFilters)
    \/ \E k \in 1..MaxEditFilters, c \in ColumnOrder : FilterAttributeChange(k, c)
    \/ \E k \in 1..MaxEditFilters : FilterAttributeEmpty(k)
    \/ \E k \in 1..MaxEditFilters : RemoveFilter(k)
    \/ \E k \in 1..MaxEditFilters, v \in 0..NCells : TimeMinInput(k, v)
    \/ \E k \in 1..MaxEditFilters, v \in 0..NCells : TimeMaxInput(k, v)
    \/ \E k \in 1..MaxInFlight : FetchSucceeds(k)
    \/ \E k \in 1..MaxInFlight : FetchFails(k)

SpecEdit == InitEdit /\ [][NextEdit]_vars

\* The filter of the list with this id, as a set of at most one filter.
FilterById(filters, id) ==
    {filters[k] : k \in {j \in 1..Len(filters) : filters[j].id = id}}

\* filters without its k-th entry, the others in their order.
Without(filters, k) ==
    [j \in 1..(Len(filters) - 1) |-> IF j < k THEN filters[j] ELSE filters[j + 1]]

\* A categorical filter has a value set and no range, a continuous filter
\* a range and no value set.
WellFormed(filter) ==
    /\ filter.type = "categorical" => ~ filter.values.null /\ filter.range.null
    /\ filter.type = "continuous" => ~ filter.range.null /\ filter.values.null

\* C31: a filter that has an attribute and a type keeps having both for as
\* long as it is in the list (choosing the empty attribute changes
\* nothing); a categorical filter has a value set and no range, a
\* continuous filter a range and no value set; and a step that shortens
\* the list removes one filter and leaves the others as they were.
C31_FilterLifecycle ==
    [][/\ \A k \in 1..Len(activeFilters') : WellFormed(activeFilters'[k])
       /\ \A id \in 1..MaxEditFilters :
             \A f \in FilterById(activeFilters, id) :
                \A g \in FilterById(activeFilters', id) :
                    ~ Unconfigured(f) => ~ Unconfigured(g)
       /\ (\E k \in 1..MaxEditFilters : FilterAttributeEmpty(k))
             => activeFilters' = activeFilters
       /\ Len(activeFilters') < Len(activeFilters)
             => \E k \in 1..Len(activeFilters) :
                    activeFilters' = Without(activeFilters, k)]_vars

\* C31 witness: of two filters the first was removed; the second is left,
\* continuous with its range, while a categorical one was added after it.
C31_Witness ==
    /\ Len(activeFilters) = 2
    /\ activeFilters[1].id = 2
    /\ activeFilters[1].type = "continuous"
    /\ ~ activeFilters[1].range.null
    /\ activeFilters[2].type = "categorical"
    /\ ~ activeFilters[2].values.null

\* C38: whatever slider inputs were made, the range of every filter that
\* has one satisfies min <= max (a min slider moved above max lifts max to
\* it, a max slider moved below min lowers min to it).
C38_RangeStaysOrdered ==
    \A k \in 1..Len(activeFilters) :
        ~ activeFilters[k].range.null
            => activeFilters[k].range.min <= activeFilters[k].range.max

\* C38 witness: the sliders of a filter on a column that spans more than
\* one value were both moved to the column's largest value.
C38_Witness ==
    \E k \in 1..Len(activeFilters) :
        /\ activeFilters[k].type = "continuous"
        /\ activeFilters[k].attribute = "age"
        /\ continuousRanges["age"].min < continuousRanges["age"].max
        /\ activeFilters[k].range.min = continuousRanges["age"].max
        /\ activeFilters[k].range.max = continuousRanges["age"].max

-----------------------------------------------------------------------------
(* SpecChange: handleCoordinateChange (app.js:3357-3429).  The X, Y or Z   *)
(* dropdown changes; the handler records the selection and loads the       *)
(* values of the three axes one after the other, each load a suspension    *)
(* during which another change can start.  Every request is answered.      *)

\* Number of rows whose x, y and z are followed.
ChangeCells == 2

\* Dimensions of the embedding the dropdowns offer.
ChangeDims == 3

\* Changes of the dropdowns in one run of the model.
MaxChanges == 2

\* app.js:30: the catalog the dropdowns are filled from.
ChangeCatalog == EmbeddingSources("X_umap", ArrayOf(ChangeDims))

ChangeSources == {ChangeCatalog[k] : k \in 1..Len(ChangeCatalog)}

\* What loadCoordinateValues returns for a source of the catalog: the
\* column of the embedding, a different non-zero number in every cell.
SourceValues(coord) ==
    [i \in 1..ChangeCells |-> 10 * (coord.columnIndex + 1) + i]

\* app.js:3421-3425: the x, y and z written to the rows; zValues is null
\* when no Z source is selected.
PositionsOf(xValues, yValues, zValues) ==
    [x |-> xValues, y |-> yValues,
     z |-> IF zValues = << >> THEN [i \in 1..ChangeCells |-> 0] ELSE zValues]

\* An activation of handleCoordinateChange: pc is the axis whose values
\* it waits for ("x", "y", "z") or "done", loading the source passed to
\* loadCoordinateValues, xValues and yValues the vectors it holds.
ChangeRun(pc, loading, xValues, yValues) ==
    [pc |-> pc, loading |-> loading, xValues |-> xValues, yValues |-> yValues]

\* app.js:1472-1520: loadData has selected the first two sources for X
\* and Y and None for Z, and has written their values to the rows.
InitChange ==
    /\ allData = [i \in 0..(ChangeCells - 1) |-> EmptyRow]
    /\ activeFilters = << >>
    /\ visibleIndices = AllIndices(allData)
    /\ storeAttrs = << >>
    /\ columnMetadata = [c \in ColumnOrder |->
                            [type |-> ColumnType(c), encodingType |-> EncodingType(c)]]
    /\ availableCoordinateSources = ChangeCatalog
    /\ selectedXCoord = ChangeCatalog[1]
    /\ selectedYCoord = ChangeCatalog[2]
    /\ selectedZCoord = NullCoord
    /\ positions = PositionsOf(SourceValues(selectedXCoord),
                               SourceValues(selectedYCoord), << >>)
    /\ coordRuns = << >>
    /\ ThrottleUnused
    /\ CoordUnused
    /\ DimUnused
    /\ BatchUnused
    /\ RenderUnused
    /\ LoaderUnused
    /\ GeneUnused
    /\ SampleUnused
    /\ lastOp = "ready"

\* app.js:3357-3416: a dropdown changes; the handler reads the three
\* dropdowns, records the selection and asks for the values of X.
HandleCoordinateChange(axis, coord) ==
    /\ Len(coordRuns) < MaxChanges
    /\ coord \in ChangeSources \cup (IF axis = "z" THEN {NullCoord} ELSE {})
    /\ coord # (CASE axis = "x" -> selectedXCoord
                  [] axis = "y" -> selectedYCoord
                  [] OTHER      -> selectedZCoord)
    /\ selectedXCoord' = IF axis = "x" THEN coord ELSE selectedXCoord
    /\ selectedYCoord' = IF axis = "y" THEN coord ELSE selectedYCoord
    /\ selectedZCoord' = IF axis = "z" THEN coord ELSE selectedZCoord
    /\ coordRuns' = Append(coordRuns,
                           ChangeRun("x", selectedXCoord', << >>, << >>))
    /\ UNCHANGED <<positions, renderVars, throttleVars, coordVars, dimVars,
                   batchToLoad, allData, activeFilters, visibleIndices,
                   storeAttrs, columnMetadata, availableCoordinateSources,
                   loaderVars, geneVars, sampleVars, lastOp>>

\* app.js:3416-3417: the values of X arrive; the handler asks for the
\* values of the Y source selected now.
XValuesArrive(r) ==
    /\ r \in 1..Len(coordRuns)
    /\ coordRuns[r].pc = "x"
    /\ coordRuns' = [coordRuns EXCEPT
                        ![r] = ChangeRun("y", selectedYCoord,
                                         SourceValues(coordRuns[r].loading), << >>)]
    /\ UNCHANGED <<selectedXCoord, selectedYCoord, selectedZCoord, positions,
                   renderVars, throttleVars, coordVars, dimVars,
                   batchToLoad, allData, activeFilters, visibleIndices,
                   storeAttrs, columnMetadata, availableCoordinateSources,
                   loaderVars, geneVars, sampleVars, lastOp>>

\* app.js:3417-3425: the values of Y arrive; with a Z source selected now
\* the handler asks for its values, otherwise it writes the rows.
YValuesArrive(r) ==
    /\ r \in 1..Len(coordRuns)
    /\ coordRuns[r].pc = "y"
    /\ LET yValues == SourceValues(coordRuns[r].loading)
       IN  IF selectedZCoord.null
           THEN /\ positions' = PositionsOf(coordRuns[r].xValues, yValues, << >>)
                /\ coordRuns' = [coordRuns EXCEPT
                       ![r] = ChangeRun("done", NullCoord, @.xValues, yValues)]
           ELSE /\ coordRuns' = [coordRuns EXCEPT
                       ![r] = ChangeRun("z", selectedZCoord, @.xValues, yValues)]
                /\ UNCHANGED positions
    /\ UNCHANGED <<selectedXCoord, selectedYCoord, selectedZCoord,
                   renderVars, throttleVars, coordVars, dimVars,
                   batchToLoad, allData, activeFilters, visibleIndices,
                   storeAttrs, columnMetadata, availableCoordinateSources,
                   loaderVars, geneVars, sampleVars, lastOp>>

\* app.js:3418-3425: the values of Z arrive and the rows are written.
ZValuesArrive(r) ==
    /\ r \in 1..Len(coordRuns)
    /\ coordRuns[r].pc = "z"
    /\ positions' = PositionsOf(coordRuns[r].xValues, coordRuns[r].yValues,
                                SourceValues(coordRuns[r].loading))
    /\ coordRuns' = [coordRuns EXCEPT
                        ![r] = ChangeRun("done", NullCoord, @.xValues, @.yValues)]
    /\ UNCHANGED <<selectedXCoord, selectedYCoord, selectedZCoord,
                   renderVars, throttleVars, coordVars, dimVars,
                   batchToLoad, allData, activeFilters, visibleIndices,
                   storeAttrs, columnMetadata, availableCoordinateSources,
                   loaderVars, geneVars, sampleVars, lastOp>>

NextChange ==
    \/ \E axis \in {"x", "y", "z"}, coord \in ChangeSources \cup {NullCoord} :
          HandleCoordinateChange(axis, coord)
    \/ \E r \in 1..MaxChanges : XValuesArrive(r)
    \/ \E r \in 1..MaxChanges : YValuesArrive(r)
    \/ \E r \in 1..MaxChanges : ZValuesArrive(r)

SpecChange == InitChange /\ [][NextChange]_vars

\* The rows hold the values of the selected sources, z being 0 in every
\* row when no Z source is selected.
PositionsAreSelected ==
    positions = PositionsOf(SourceValues(selectedXCoord),
                            SourceValues(selectedYCoord),
                            IF selectedZCoord.null THEN << >>
                            ELSE SourceValues(selectedZCoord))

\* C35: once every coordinate change has finished loading, every row's
\* x, y and z hold the values of the selected X, Y and Z sources, in
\* whatever order the loads of overlapping changes finished.
C35_RowsHoldSelectedSources ==
    (\A r \in 1..Len(coordRuns) : coordRuns[r].pc = "done")
        => PositionsAreSelected

-----------------------------------------------------------------------------
(* SpecRender: createPointCloud (app.js:2291-2465) and the scene.  A run   *)
(* removes the mesh pointCloud refers to, waits for the colour-by column   *)
(* when it is not loaded, then builds a mesh from visibleIndices, adds it  *)
(* to the scene and makes pointCloud refer to it.  Runs are started by a   *)
(* colour-by change and by the end of updateFilter; every column request   *)
(* is answered.                                                            *)

\* Number of rows of the rendered table.
RenderRows == 2

\* Runs of createPointCloud in one run of the model.
MaxRenders == 3

\* app.js:2407: the mesh a run builds; id tells the meshes apart, indices
\* is the indicesToRender it was built from (all of visibleIndices, the
\* sample rate being 100).
Mesh(id, indices) == [id |-> id, indices |-> indices]

\* An activation of createPointCloud: pc "column" while it waits at
\* app.js:2324 for column col, "done" afterwards.
RenderRun(pc, col) == [pc |-> pc, col |-> col]

\* Results a recompute can leave in visibleIndices.
RenderLists == {Ascending(S) : S \in SUBSET (0..(RenderRows - 1))}

\* app.js:1667-1675: loadData has rendered every row, coloured by the
\* first categorical column, and set up the event listeners.
InitRender ==
    /\ allData = [i \in 0..(RenderRows - 1) |-> EmptyRow]
    /\ activeFilters = << >>
    /\ visibleIndices = AllIndices(allData)
    /\ loadedColumns = {"cluster"}
    /\ continuousRanges = InitialRanges
    /\ attributeValues = InitialAttributeValues
    /\ colorBy = "cluster"
    /\ filterUpdateTimeout = FALSE
    /\ obsStore = << >>
    /\ calls = << >>
    /\ fetches = [c \in ColumnOrder |-> 0]
    /\ loadLog = [finished |-> {}, failed |-> {}]
    /\ scene = {Mesh(0, visibleIndices)}
    /\ pointCloud = Mesh(0, visibleIndices)
    /\ renderedIndicesMap = visibleIndices
    /\ renderRuns = << >>
    /\ ThrottleUnused
    /\ CoordUnused
    /\ DimUnused
    /\ BatchUnused
    /\ ChangeUnused
    /\ GeneUnused
    /\ SampleUnused
    /\ DiscoveryUnused
    /\ lastOp = "ready"

\* app.js:2457: scene.add(sphereMesh).
AddMesh(meshes, mesh) == meshes \cup {mesh}

\* app.js:2326-2461: the run builds its mesh from the visibleIndices of
\* now, adds it to the scene and records it.
FinishRender(meshes, id, indices) ==
    /\ scene' = AddMesh(meshes, Mesh(id, indices))
    /\ pointCloud' = Mesh(id, indices)
    /\ renderedIndicesMap' = indices

\* app.js:2291-2325: createPointCloud up to its await, called with the
\* colour-by column c and the visible list indices in place.
StartRender(c, indices) ==
    LET id == Len(renderRuns) + 1
        cleared == scene \ {pointCloud}
    IN  IF indices = << >>
        THEN /\ scene' = cleared
             /\ renderRuns' = Append(renderRuns, RenderRun("done", c))
             /\ UNCHANGED <<pointCloud, renderedIndicesMap>>
        ELSE IF c \notin loadedColumns
        THEN /\ scene' = cleared
             /\ renderRuns' = Append(renderRuns, RenderRun("column", c))
             /\ UNCHANGED <<pointCloud, renderedIndicesMap>>
        ELSE /\ FinishRender(cleared, id, indices)
             /\ renderRuns' = Append(renderRuns, RenderRun("done", c))

\* app.js:3438-3456: the colour-by dropdown changes; with a point cloud
\* in place createPointCloud is called.
RenderColorBy(c) ==
    /\ Len(renderRuns) < MaxRenders
    /\ c # colorBy
    /\ pointCloud # NullMesh
    /\ colorBy' = c
    /\ StartRender(c, visibleIndices)
    /\ UNCHANGED <<visibleIndices, loadedColumns, continuousRanges,
                   attributeValues, filterUpdateTimeout, obsStore, calls,
                   fetches, loadLog, changeVars, throttleVars, coordVars,
                   dimVars, batchToLoad, allData, activeFilters,
                   discoveryVars, geneVars, sampleVars, lastOp>>

\* app.js:2859-2864: updateFilter has computed the visible list and calls
\* createPointCloud.
RenderVisible(indices) ==
    /\ Len(renderRuns) < MaxRenders
    /\ indices \in RenderLists
    /\ visibleIndices' = indices
    /\ StartRender(colorBy, indices)
    /\ UNCHANGED <<colorBy, loadedColumns, continuousRanges,
                   attributeValues, filterUpdateTimeout, obsStore, calls,
                   fetches, loadLog, changeVars, throttleVars, coordVars,
                   dimVars, batchToLoad, allData, activeFilters,
                   discoveryVars, geneVars, sampleVars, lastOp>>

\* app.js:2324-2461: the column a run waits for arrives; the run goes on
\* to build and add its mesh.
RenderColumnArrives(r) ==
    /\ r \in 1..Len(renderRuns)
    /\ renderRuns[r].pc = "column"
    /\ loadedColumns' = loadedColumns \cup {renderRuns[r].col}
    /\ FinishRender(scene, r, visibleIndices)
    /\ renderRuns' = [renderRuns EXCEPT ![r].pc = "done"]
    /\ UNCHANGED <<colorBy, visibleIndices, continuousRanges,
                   attributeValues, filterUpdateTimeout, obsStore, calls,
                   fetches, loadLog, changeVars, throttleVars, coordVars,
                   dimVars, batchToLoad, allData, activeFilters,
                   discoveryVars, geneVars, sampleVars, lastOp>>

NextRender ==
    \/ \E c \in ColumnOrder : RenderColorBy(c)
    \/ \E indices \in RenderLists : RenderVisible(indices)
    \/ \E r \in 1..MaxRenders : RenderColumnArrives(r)

SpecRender == InitRender /\ [][NextRender]_vars

\* C36: once every run of createPointCloud has finished, at most one
\* point-cloud mesh is in the scene, and it is the one pointCloud refers
\* to and renderedIndicesMap describes.
C36_AtMostOneMesh ==
    (\A r \in 1..Len(renderRuns) : renderRuns[r].pc = "done")
        => /\ Cardinality(scene) <= 1
           /\ \A mesh \in scene :
                 mesh = pointCloud /\ renderedIndicesMap = mesh.indices

=============================================================================
